---- MODULE Spec2Model ----
(***************************************************************************)
(* Verification model of the left-leaning red-black BST behind SortedMap / *)
(* OrderedMap (data-structures/sorted-map, data-structures/ordered-map).   *)
(*                                                                         *)
(* A tree is a nested record; the functions of redBlackBST.ts mutate nodes *)
(* in place and return the new subtree root, which is modelled by          *)
(* returning the updated record (child subtrees are never shared).  A      *)
(* failing ok(...) assertion is modelled by the value AssertionError,      *)
(* which every caller propagates unchanged, as a thrown error would.       *)
(***************************************************************************)
EXTENDS Integers, Sequences, FiniteSets, TLC

\* ---- bounds -------------------------------------------------------------
MaxKey == 4
MaxVal == 2
MaxSize == 5
MaxIterKey == 2
MaxHeightKey == 6
MaxItem == 3
MaxHeapLen == 4
PQCapacity == 3
MaxPriority == 1
MaxPQLen == 3
MaxQueueLen == 3
MaxStackLen == 3
UFSize == 4

KeySet == 1..MaxKey
ValSet == 1..MaxVal
IterKeySet == 1..MaxIterKey
HeightKeySet == 1..MaxHeightKey

ItemSet == 1..MaxItem
PrioritySet == 0..MaxPriority

\* Every key a specification below hands to the container.
AllKeys == KeySet \cup IterKeySet \cup HeightKeySet

\* ---- node.ts ------------------------------------------------------------
RED == TRUE
BLACK == FALSE

null == [null |-> TRUE]

\* Outcome of a failed ok(...) of node:assert/strict.
AssertionError == [error |-> "AssertionError"]

\* Result of SortedMap.get for an absent key (`return;`); values are 1..MaxVal.
undefined == 0

Node(key, value, color, sz) ==
  [key |-> key, value |-> value, left |-> null, right |-> null,
   color |-> color, size |-> sz]

size(root) == IF root = null THEN 0 ELSE root.size

isRed(node) == IF node = null THEN FALSE ELSE node.color = RED

\* The comparator handed to the constructor: (a, b) => a - b.
compareFn(a, b) == a - b

\* ---- BST.ts -------------------------------------------------------------
RECURSIVE has(_, _)
has(root, key) ==
  IF root = null THEN FALSE
  ELSE LET cmp == compareFn(key, root.key)
       IN IF cmp < 0 THEN has(root.left, key)
          ELSE IF cmp > 0 THEN has(root.right, key)
          ELSE TRUE

\* BST.get throws NoSuchElementError for an absent key and SortedMap.get
\* catches it and returns undefined; both are folded into this operator.
RECURSIVE get(_, _)
get(root, key) ==
  IF root = null THEN undefined
  ELSE LET cmp == compareFn(key, root.key)
       IN IF cmp < 0 THEN get(root.left, key)
          ELSE IF cmp > 0 THEN get(root.right, key)
          ELSE root.value

\* min that does not descend: the root of the subtree itself.
min_ofRoot(root) == root

RECURSIVE min(_)
min(root) == IF root.left = null THEN root ELSE min(root.left)

RECURSIVE max(_)
max(root) == IF root.right = null THEN root ELSE max(root.right)

\* floor that also descends to the left when key > root.key.
RECURSIVE floor_alwaysLeft(_, _)
floor_alwaysLeft(root, key) ==
  IF root = null THEN null
  ELSE LET cmp == compareFn(key, root.key)
       IN IF cmp = 0 THEN root
          ELSE floor_alwaysLeft(root.left, key)

RECURSIVE floor(_, _)
floor(root, key) ==
  IF root = null THEN null
  ELSE LET cmp == compareFn(key, root.key)
       IN IF cmp = 0 THEN root
          ELSE IF cmp < 0 THEN floor(root.left, key)
          ELSE LET node == floor(root.right, key)
               IN IF node # null THEN node ELSE root

\* ceiling without the `?? root` fallback.
RECURSIVE ceiling_noFallback(_, _)
ceiling_noFallback(root, key) ==
  IF root = null THEN null
  ELSE LET cmp == compareFn(key, root.key)
       IN IF cmp = 0 THEN root
          ELSE IF cmp > 0 THEN ceiling_noFallback(root.right, key)
          ELSE ceiling_noFallback(root.left, key)

RECURSIVE ceiling(_, _)
ceiling(root, key) ==
  IF root = null THEN null
  ELSE LET cmp == compareFn(key, root.key)
       IN IF cmp = 0 THEN root
          ELSE IF cmp > 0 THEN ceiling(root.right, key)
          ELSE LET node == ceiling(root.left, key)
               IN IF node # null THEN node ELSE root

\* In-order list of [key, value] entries; [] for an empty tree.
\* createSnapshot that visits a node before its left subtree.
RECURSIVE createSnapshot_preOrder(_)
createSnapshot_preOrder(root) ==
  IF root = null THEN << >>
  ELSE << <<root.key, root.value>> >> \o createSnapshot_preOrder(root.left)
       \o createSnapshot_preOrder(root.right)

RECURSIVE createSnapshot(_)
createSnapshot(root) ==
  IF root = null THEN << >>
  ELSE createSnapshot(root.left) \o << <<root.key, root.value>> >>
       \o createSnapshot(root.right)

\* ---- redBlackBST.ts: helper functions -----------------------------------
\* rotateLeft without `newRoot.color = root.color`.
rotateLeft_keepsColor(root) ==
  IF ~(root.right # null /\ isRed(root.right)) THEN AssertionError
  ELSE LET newRoot == root.right
           r1 == [root EXCEPT !.right = newRoot.left, !.color = RED]
           r2 == [r1 EXCEPT !.size = size(r1.left) + size(r1.right) + 1]
       IN [newRoot EXCEPT !.left = r2, !.size = root.size]

rotateLeft(root) ==
  IF ~(root.right # null /\ isRed(root.right)) THEN AssertionError
  ELSE LET newRoot == root.right
           r1 == [root EXCEPT !.right = newRoot.left, !.color = RED]
           r2 == [r1 EXCEPT !.size = size(r1.left) + size(r1.right) + 1]
       IN [newRoot EXCEPT !.left = r2, !.color = root.color,
                          !.size = root.size]

rotateRight(root) ==
  IF ~(root.left # null /\ isRed(root.left)) THEN AssertionError
  ELSE LET newRoot == root.left
           r1 == [root EXCEPT !.left = newRoot.right, !.color = RED]
           r2 == [r1 EXCEPT !.size = size(r1.left) + size(r1.right) + 1]
       IN [newRoot EXCEPT !.right = r2, !.color = root.color,
                          !.size = root.size]

flipColors(node) ==
  IF ~(node.left # null /\ node.right # null) THEN AssertionError
  ELSE IF ~(isRed(node.left) = isRed(node.right)) THEN AssertionError
  ELSE IF ~(isRed(node) # isRed(node.left)) THEN AssertionError
  ELSE [node EXCEPT !.color = ~node.color,
                    !.left.color = ~node.left.color,
                    !.right.color = ~node.right.color]

\* moveRedLeft without its first flipColors.
moveRedLeft_noFlip(node) ==
  IF ~isRed(node) THEN AssertionError
  ELSE IF ~(node.left # null /\ ~isRed(node.left) /\ ~isRed(node.left.left))
    THEN AssertionError
  ELSE IF node.right = null THEN AssertionError
  ELSE IF isRed(node.right.left)
    THEN LET r == rotateRight(node.right)
         IN IF r = AssertionError THEN AssertionError
            ELSE LET n2 == rotateLeft([node EXCEPT !.right = r])
                 IN IF n2 = AssertionError THEN AssertionError
                    ELSE flipColors(n2)
  ELSE node

moveRedLeft(node) ==
  IF ~isRed(node) THEN AssertionError
  ELSE IF ~(node.left # null /\ ~isRed(node.left) /\ ~isRed(node.left.left))
    THEN AssertionError
  ELSE IF node.right = null THEN AssertionError
  ELSE LET n1 == flipColors(node)
       IN IF n1 = AssertionError THEN AssertionError
          ELSE IF isRed(n1.right.left)
            THEN LET r == rotateRight(n1.right)
                 IN IF r = AssertionError THEN AssertionError
                    ELSE LET n2 == rotateLeft([n1 EXCEPT !.right = r])
                         IN IF n2 = AssertionError THEN AssertionError
                            ELSE flipColors(n2)
          ELSE n1

moveRedRight(node) ==
  IF ~isRed(node) THEN AssertionError
  ELSE IF ~(node.right # null /\ ~isRed(node.right) /\ ~isRed(node.right.left))
    THEN AssertionError
  ELSE IF node.left = null THEN AssertionError
  ELSE LET n1 == flipColors(node)
       IN IF n1 = AssertionError THEN AssertionError
          ELSE IF isRed(n1.left.left)
            THEN LET n2 == rotateRight(n1)
                 IN IF n2 = AssertionError THEN AssertionError
                    ELSE flipColors(n2)
          ELSE n1

\* balance without its first step, the rotateLeft of a red right link.
balance_noRotateLeft(root) ==
  LET b2 == IF root.left # null /\ isRed(root.left) /\ isRed(root.left.left)
              THEN rotateRight(root) ELSE root
  IN IF b2 = AssertionError THEN AssertionError
     ELSE IF isRed(b2.left) /\ isRed(b2.right) THEN flipColors(b2)
     ELSE b2

balance(root) ==
  LET b1 == IF isRed(root.right) /\ ~isRed(root.left)
              THEN rotateLeft(root) ELSE root
  IN IF b1 = AssertionError THEN AssertionError
     ELSE LET b2 == IF b1.left # null /\ isRed(b1.left) /\ isRed(b1.left.left)
                      THEN rotateRight(b1) ELSE b1
          IN IF b2 = AssertionError THEN AssertionError
             ELSE IF isRed(b2.left) /\ isRed(b2.right) THEN flipColors(b2)
             ELSE b2

\* ---- redBlackBST.ts: insert / deleteMin / deleteMax / remove ------------
RECURSIVE insert(_, _, _)
\* insert without `else root.value = value`.
insert_keepsValue(root, key, value) ==
  IF root = null THEN Node(key, value, RED, 1)
  ELSE LET cmp == compareFn(key, root.key)
       IN IF cmp < 0
            THEN LET l == insert(root.left, key, value)
                 IN IF l = AssertionError THEN AssertionError
                    ELSE balance([root EXCEPT !.left = l])
          ELSE IF cmp > 0
            THEN LET r == insert(root.right, key, value)
                 IN IF r = AssertionError THEN AssertionError
                    ELSE balance([root EXCEPT !.right = r])
          ELSE balance(root)

\* insert that counts a key again when it is already there.
insert_countsAgain(root, key, value) ==
  IF root = null THEN Node(key, value, RED, 1)
  ELSE LET cmp == compareFn(key, root.key)
       IN IF cmp < 0
            THEN LET l == insert(root.left, key, value)
                 IN IF l = AssertionError THEN AssertionError
                    ELSE balance([root EXCEPT !.left = l])
          ELSE IF cmp > 0
            THEN LET r == insert(root.right, key, value)
                 IN IF r = AssertionError THEN AssertionError
                    ELSE balance([root EXCEPT !.right = r])
          ELSE balance([root EXCEPT !.value = value, !.size = @ + 1])

insert(root, key, value) ==
  IF root = null THEN Node(key, value, RED, 1)
  ELSE LET cmp == compareFn(key, root.key)
       IN IF cmp < 0
            THEN LET l == insert(root.left, key, value)
                 IN IF l = AssertionError THEN AssertionError
                    ELSE balance([root EXCEPT !.left = l])
          ELSE IF cmp > 0
            THEN LET r == insert(root.right, key, value)
                 IN IF r = AssertionError THEN AssertionError
                    ELSE balance([root EXCEPT !.right = r])
          ELSE balance([root EXCEPT !.value = value])

RECURSIVE deleteMin(_)
deleteMin(root) ==
  IF ~(isRed(root) \/ isRed(root.left)) THEN AssertionError
  ELSE IF root.left = null THEN null
  ELSE LET r1 == IF ~isRed(root.left) /\ ~isRed(root.left.left)
                   THEN moveRedLeft(root) ELSE root
       IN IF r1 = AssertionError THEN AssertionError
          ELSE LET l == deleteMin(r1.left)
               IN IF l = AssertionError THEN AssertionError
                  ELSE balance([r1 EXCEPT !.left = l])

RECURSIVE deleteMax(_)
\* deleteMax without `if (isRed(root.left)) root = rotateRight(root)`.
deleteMax_noRotateRight(root) ==
  IF ~(isRed(root) \/ isRed(root.right) \/ isRed(root.left))
    THEN AssertionError
  ELSE IF root.right = null THEN null
  ELSE LET r1 == IF ~isRed(root.right) /\ ~isRed(root.right.left)
                   THEN moveRedRight(root) ELSE root
       IN IF r1 = AssertionError THEN AssertionError
          ELSE LET r == deleteMax(r1.right)
               IN IF r = AssertionError THEN AssertionError
                  ELSE balance([r1 EXCEPT !.right = r])

deleteMax(root) ==
  IF ~(isRed(root) \/ isRed(root.right) \/ isRed(root.left))
    THEN AssertionError
  ELSE LET r0 == IF isRed(root.left) THEN rotateRight(root) ELSE root
       IN IF r0 = AssertionError THEN AssertionError
          ELSE IF r0.right = null THEN null
          ELSE LET r1 == IF ~isRed(r0.right) /\ ~isRed(r0.right.left)
                           THEN moveRedRight(r0) ELSE r0
               IN IF r1 = AssertionError THEN AssertionError
                  ELSE LET r == deleteMax(r1.right)
                       IN IF r = AssertionError THEN AssertionError
                          ELSE balance([r1 EXCEPT !.right = r])

\* The successor step taking max(root.right) for min(root.right).
removeSuccessor_takesMax(root) ==
  LET minNode == max(root.right)
      r == deleteMin(root.right)
  IN IF r = AssertionError THEN AssertionError
     ELSE balance([root EXCEPT !.key = minNode.key,
                               !.value = minNode.value,
                               !.right = r])

\* The successor step without `root.value = minNode.value`.
removeSuccessor_keepsValue(root) ==
  LET minNode == min(root.right)
      r == deleteMin(root.right)
  IN IF r = AssertionError THEN AssertionError
     ELSE balance([root EXCEPT !.key = minNode.key, !.right = r])

\* The successor step of remove: root.key/value = min(root.right).key/value,
\* root.right = deleteMin(root.right).
removeSuccessor(root) ==
  LET minNode == min(root.right)
      r == deleteMin(root.right)
  IN IF r = AssertionError THEN AssertionError
     ELSE balance([root EXCEPT !.key = minNode.key,
                               !.value = minNode.value,
                               !.right = r])

RECURSIVE remove(_, _)
remove(root, key) ==
  IF compareFn(key, root.key) < 0
    THEN IF root.left = null THEN AssertionError
         ELSE LET r1 == IF ~isRed(root.left) /\ ~isRed(root.left.left)
                          THEN moveRedLeft(root) ELSE root
              IN IF r1 = AssertionError THEN AssertionError
                 ELSE LET l == remove(r1.left, key)
                      IN IF l = AssertionError THEN AssertionError
                         ELSE balance([r1 EXCEPT !.left = l])
  ELSE LET r0 == IF isRed(root.left) THEN rotateRight(root) ELSE root
       IN IF r0 = AssertionError THEN AssertionError
          ELSE IF compareFn(key, r0.key) = 0 /\ r0.right = null THEN null
          ELSE IF r0.right = null THEN AssertionError
          ELSE LET r1 == IF ~isRed(r0.right) /\ ~isRed(r0.right.left)
                           THEN moveRedRight(r0) ELSE r0
               IN IF r1 = AssertionError THEN AssertionError
                  ELSE IF compareFn(key, r1.key) = 0
                    THEN removeSuccessor(r1)
                  ELSE LET r == remove(r1.right, key)
                       IN IF r = AssertionError THEN AssertionError
                          ELSE balance([r1 EXCEPT !.right = r])

\* ---- state ---------------------------------------------------------------
VARIABLES
  _root,   \* SortedMap._root: the tree, or null
  kv,      \* history: key -> value most recently set and not removed since,
           \*          undefined when the key is not in the map
  last,    \* history: the last public call and how it ended
  it,      \* the generator object most recently returned by
           \* [Symbol.iterator](), stepped by its next()
  twin,    \* a SortedSet that is given the same calls as the SortedMap: its
           \* _root and how its last call ended; null when there is none
  heap,    \* a MaxHeap or MinHeap: its fields _items, _size, _canBeParentFn
  added,   \* history: the items added to heap and not removed since, each
           \*          with the number of times
  frame,   \* the add or remove call on heap that is inside its heapifyUp or
           \* heapifyDown loop: the locals idx, childIdx, n; null between
           \* calls
  pq,      \* an IndexedMaxPQ or IndexedMinPQ: its fields _heap, _size,
           \* _idxs, _priorities and its _canBeParent
  given,   \* history: item -> priority last given to it by enqueue or
           \*          change, for the items enqueued and not taken out since
  queue,   \* a Queue: its fields _front, _back, _size and the nodes made
  fifo,    \* history: the items enqueued and not dequeued, oldest first
  stack,   \* a Stack: its fields _top, _size
  lifo,    \* history: the items pushed and not popped, newest first
  uf,      \* a UnionFind: its fields _parent, _rank, _cnt
  joined   \* history: the pairs {x, y} handed to union so far

treeVars == <<_root, kv, it>>
twinVars == <<twin>>
heapVars == <<heap, added, frame>>
pqVars == <<pq, given>>
queueVars == <<queue, fifo>>
stackVars == <<stack, lifo>>
ufVars == <<uf, joined>>

vars ==
  <<treeVars, last, twinVars, heapVars, pqVars, queueVars, stackVars, ufVars>>

\* What a call on a SortedMap or SortedSet leaves alone besides the iterator.
others == <<twinVars, heapVars, pqVars, queueVars, stackVars, ufVars>>

\* No object of the other classes has been constructed.
NoHeap == heap = null /\ added = << >> /\ frame = null
NoPQ == pq = null /\ given = << >>
NoQueue == queue = null /\ fifo = << >>
NoStack == stack = null /\ lifo = << >>
NoUF == uf = null /\ joined = {}

\* A call that returns nothing, `this` or a boolean, or throws.
Call(op, ret) == [op |-> op, ret |-> ret, val |-> undefined]

\* A call that returns the value val.
Returns(op, val) == [op |-> op, ret |-> "value", val |-> val]

\* An AssertionError escapes the public call with the nodes half updated; the
\* model stops there.
Running == last.ret # "AssertionError"

present == {k \in AllKeys : kv[k] # undefined}

leastPresent == CHOOSE k \in present : \A j \in present : compareFn(k, j) <= 0

greatestPresent ==
  CHOOSE k \in present : \A j \in present : compareFn(k, j) >= 0

\* The size counters are not kept current (see C2_SizeCountsKeys) and can grow
\* without limit; a call is explored only while every counter is <= MaxSize.
RECURSIVE sizesWithin(_)
sizesWithin(root) ==
  IF root = null THEN TRUE
  ELSE /\ root.size <= MaxSize
       /\ sizesWithin(root.left)
       /\ sizesWithin(root.right)

\* No iterator has been asked for.
NoIterator == [state |-> "none", rest |-> << >>, expect |-> << >>]

Init ==
  /\ _root = null
  /\ kv = [k \in AllKeys |-> undefined]
  /\ last = Call("new", "void")
  /\ it = NoIterator
  /\ twin = null
  /\ NoHeap /\ NoPQ /\ NoQueue /\ NoStack /\ NoUF

\* ---- SortedMap (index.ts) -------------------------------------------------
\* The root handed to remove / deleteMin / deleteMax: colored RED when both of
\* its children are black.
redden(root) ==
  IF ~isRed(root.left) /\ ~isRed(root.right)
    THEN [root EXCEPT !.color = RED] ELSE root

\* `if (!this.isEmpty()) this._root!.color = BLACK`
\* Without `this._root.color = BLACK` after a removal.
blacken_skipped(root) == root

blacken(root) == IF root # null THEN [root EXCEPT !.color = BLACK] ELSE root

SortedMap_clear ==
  /\ Running
  /\ _root' = null
  /\ kv' = [k \in AllKeys |-> undefined]
  /\ last' = Call("clear", "void")

SortedMap_set(key, value) ==
  /\ Running
  /\ LET r == insert(_root, key, value)
     IN IF r = AssertionError
          THEN /\ _root' = _root
               /\ last' = Call("set", "AssertionError")
          ELSE /\ _root' = [r EXCEPT !.color = BLACK]
               /\ last' = Call("set", "this")
  /\ kv' = [kv EXCEPT ![key] = value]
  /\ sizesWithin(_root')

\* delete coloring the root before it has checked that the key is present.
SortedMap_delete_reddensFirst(key) ==
  /\ Running
  /\ IF ~has(_root, key)
       THEN /\ _root' = IF _root = null THEN _root ELSE redden(_root)
            /\ last' = Call("delete", "false")
       ELSE LET r == remove(redden(_root), key)
            IN IF r = AssertionError
                 THEN /\ _root' = _root
                      /\ last' = Call("delete", "AssertionError")
                 ELSE /\ _root' = blacken(r)
                      /\ last' = Call("delete", "true")
  /\ kv' = [kv EXCEPT ![key] = undefined]
  /\ sizesWithin(_root')

SortedMap_delete(key) ==
  /\ Running
  /\ IF ~has(_root, key)
       THEN /\ _root' = _root
            /\ last' = Call("delete", "false")
       ELSE LET r == remove(redden(_root), key)
            IN IF r = AssertionError
                 THEN /\ _root' = _root
                      /\ last' = Call("delete", "AssertionError")
                 ELSE /\ _root' = blacken(r)
                      /\ last' = Call("delete", "true")
  /\ kv' = [kv EXCEPT ![key] = undefined]
  /\ sizesWithin(_root')

\* deleteMin without coloring the root RED when both its children are black.
SortedMap_deleteMin_noRedden ==
  /\ Running
  /\ IF _root = null
       THEN /\ _root' = _root
            /\ last' = Call("deleteMin", "NoSuchElementError")
       ELSE LET r == deleteMin(_root)
            IN IF r = AssertionError
                 THEN /\ _root' = _root
                      /\ last' = Call("deleteMin", "AssertionError")
                 ELSE /\ _root' = blacken(r)
                      /\ last' = Call("deleteMin", "void")
  /\ kv' = IF present = {} THEN kv
           ELSE [kv EXCEPT ![leastPresent] = undefined]
  /\ sizesWithin(_root')

\* deleteMin calling deleteMax of redBlackBST.
SortedMap_deleteMin_callsDeleteMax ==
  /\ Running
  /\ IF _root = null
       THEN /\ _root' = _root
            /\ last' = Call("deleteMin", "NoSuchElementError")
       ELSE LET r == deleteMax(redden(_root))
            IN IF r = AssertionError
                 THEN /\ _root' = _root
                      /\ last' = Call("deleteMin", "AssertionError")
                 ELSE /\ _root' = blacken(r)
                      /\ last' = Call("deleteMin", "void")
  /\ kv' = IF present = {} THEN kv
           ELSE [kv EXCEPT ![leastPresent] = undefined]
  /\ sizesWithin(_root')

SortedMap_deleteMin ==
  /\ Running
  /\ IF _root = null
       THEN /\ _root' = _root
            /\ last' = Call("deleteMin", "NoSuchElementError")
       ELSE LET r == deleteMin(redden(_root))
            IN IF r = AssertionError
                 THEN /\ _root' = _root
                      /\ last' = Call("deleteMin", "AssertionError")
                 ELSE /\ _root' = blacken(r)
                      /\ last' = Call("deleteMin", "void")
  /\ kv' = IF present = {} THEN kv
           ELSE [kv EXCEPT ![leastPresent] = undefined]
  /\ sizesWithin(_root')

SortedMap_deleteMax ==
  /\ Running
  /\ IF _root = null
       THEN /\ _root' = _root
            /\ last' = Call("deleteMax", "NoSuchElementError")
       ELSE LET r == deleteMax(redden(_root))
            IN IF r = AssertionError
                 THEN /\ _root' = _root
                      /\ last' = Call("deleteMax", "AssertionError")
                 ELSE /\ _root' = blacken(r)
                      /\ last' = Call("deleteMax", "void")
  /\ kv' = IF present = {} THEN kv
           ELSE [kv EXCEPT ![greatestPresent] = undefined]
  /\ sizesWithin(_root')

\* ---- SortedMap (index.ts): calls that only read ---------------------------
SortedMap_size ==
  /\ Running
  /\ last' = Returns("size", size(_root))
  /\ UNCHANGED <<_root, kv>>

SortedMap_isEmpty ==
  /\ Running
  /\ last' = Call("isEmpty", IF _root = null THEN "true" ELSE "false")
  /\ UNCHANGED <<_root, kv>>

SortedMap_get(key) ==
  /\ Running
  /\ last' = Returns("get", get(_root, key))
  /\ UNCHANGED <<_root, kv>>

SortedMap_has(key) ==
  /\ Running
  /\ last' = Call("has", IF has(_root, key) THEN "true" ELSE "false")
  /\ UNCHANGED <<_root, kv>>

\* min that colours the root RED before descending, as deleteMin does.
SortedMap_min_reddens ==
  /\ Running
  /\ last' = IF _root = null THEN Call("min", "NoSuchElementError")
             ELSE Returns("min", min(_root).key)
  /\ _root' = IF _root = null THEN _root ELSE redden(_root)
  /\ UNCHANGED kv

SortedMap_min ==
  /\ Running
  /\ last' = IF _root = null THEN Call("min", "NoSuchElementError")
             ELSE Returns("min", min(_root).key)
  /\ UNCHANGED <<_root, kv>>

\* max without the isEmpty() test: max(null) reads a field of null.
SortedMap_max_noEmptyTest ==
  /\ Running
  /\ last' = IF _root = null THEN Call("max", "TypeError")
             ELSE Returns("max", max(_root).key)
  /\ UNCHANGED <<_root, kv>>

SortedMap_max ==
  /\ Running
  /\ last' = IF _root = null THEN Call("max", "NoSuchElementError")
             ELSE Returns("max", max(_root).key)
  /\ UNCHANGED <<_root, kv>>

SortedMap_floor(key) ==
  /\ Running
  /\ last' = IF _root = null THEN Call("floor", "NoSuchElementError")
             ELSE LET node == floor(_root, key)
                  IN IF node = null THEN Call("floor", "NoSuchElementError")
                     ELSE Returns("floor", node.key)
  /\ UNCHANGED <<_root, kv>>

SortedMap_ceiling(key) ==
  /\ Running
  /\ last' = IF _root = null THEN Call("ceiling", "NoSuchElementError")
             ELSE LET node == ceiling(_root, key)
                  IN IF node = null THEN Call("ceiling", "NoSuchElementError")
                     ELSE Returns("ceiling", node.key)
  /\ UNCHANGED <<_root, kv>>

\* for (const entry of map) ...: the iterator is obtained and drained with no
\* other call in between; val is the list of entries it yielded.
SortedMap_iterate ==
  /\ Running
  /\ last' = Returns("iterate", createSnapshot(_root))
  /\ UNCHANGED <<_root, kv>>

Next ==
  \/ SortedMap_clear /\ UNCHANGED <<it, others>>
  \/ \E key \in KeySet, value \in ValSet :
       SortedMap_set(key, value) /\ UNCHANGED <<it, others>>
  \/ \E key \in KeySet : SortedMap_delete(key) /\ UNCHANGED <<it, others>>
  \/ SortedMap_deleteMin /\ UNCHANGED <<it, others>>
  \/ SortedMap_deleteMax /\ UNCHANGED <<it, others>>

Spec == Init /\ [][Next]_vars

Reads ==
  {"size", "isEmpty", "get", "has", "min", "max", "floor", "ceiling",
   "iterate"}

\* A map of keys 1..MaxHeightKey, each set with itself as its value: trees
\* tall enough for their height to matter.
NextHeight ==
  \/ SortedMap_clear /\ UNCHANGED <<it, others>>
  \/ \E key \in HeightKeySet :
       SortedMap_set(key, key) /\ UNCHANGED <<it, others>>
  \/ \E key \in HeightKeySet :
       SortedMap_delete(key) /\ UNCHANGED <<it, others>>
  \/ SortedMap_deleteMin /\ UNCHANGED <<it, others>>
  \/ SortedMap_deleteMax /\ UNCHANGED <<it, others>>

SpecHeight == Init /\ [][NextHeight]_vars

\* The same container with the reading calls as well.  A reading call leaves
\* _root and kv as they were, so the calls that can follow it are the calls
\* that can follow the state it was made in, and are explored from there.
Unread == last.op \notin Reads

NextQuery ==
  \/ Unread /\ SortedMap_clear /\ UNCHANGED <<it, others>>
  \/ \E key \in KeySet, value \in ValSet :
       Unread /\ SortedMap_set(key, value) /\ UNCHANGED <<it, others>>
  \/ \E key \in KeySet :
       Unread /\ SortedMap_delete(key) /\ UNCHANGED <<it, others>>
  \/ Unread /\ SortedMap_deleteMin /\ UNCHANGED <<it, others>>
  \/ Unread /\ SortedMap_deleteMax /\ UNCHANGED <<it, others>>
  \/ Unread /\ SortedMap_size /\ UNCHANGED <<it, others>>
  \/ Unread /\ SortedMap_isEmpty /\ UNCHANGED <<it, others>>
  \/ \E key \in KeySet :
       Unread /\ SortedMap_get(key) /\ UNCHANGED <<it, others>>
  \/ \E key \in KeySet :
       Unread /\ SortedMap_has(key) /\ UNCHANGED <<it, others>>
  \/ Unread /\ SortedMap_min /\ UNCHANGED <<it, others>>
  \/ Unread /\ SortedMap_max /\ UNCHANGED <<it, others>>
  \/ \E key \in KeySet :
       Unread /\ SortedMap_floor(key) /\ UNCHANGED <<it, others>>
  \/ \E key \in KeySet :
       Unread /\ SortedMap_ceiling(key) /\ UNCHANGED <<it, others>>
  \/ Unread /\ SortedMap_iterate /\ UNCHANGED <<it, others>>

SpecQuery == Init /\ [][NextQuery]_vars

\* ---- SortedMap (index.ts): the iterator, step by step --------------------
\* *[Symbol.iterator]() is a generator: the call returns a generator object
\* suspended at the start of the body and runs none of it.  expect is
\* history: what is still to come of the entries the map held at the call.
SortedMap_iterator ==
  /\ Running
  /\ it' = [state |-> "suspendedStart", rest |-> << >>,
            expect |-> createSnapshot(_root)]
  /\ last' = Call("iterator", "generator")
  /\ UNCHANGED <<_root, kv>>

\* next() of the generator object.  The first next() runs the body up to its
\* first yield, and so evaluates createSnapshot(this._root); a later next()
\* resumes the for-of loop over that array; rest is what is left of it.
Iterator_next ==
  /\ Running
  /\ it.state # "none"
  /\ LET pending == IF it.state = "suspendedStart"
                      THEN createSnapshot(_root) ELSE it.rest
         expect == IF it.expect = << >> THEN << >> ELSE Tail(it.expect)
     IN IF pending = << >>
          THEN /\ it' = [state |-> "completed", rest |-> << >>,
                         expect |-> expect]
               /\ last' = Call("next", "done")
          ELSE /\ it' = [state |-> "suspendedYield", rest |-> Tail(pending),
                         expect |-> expect]
               /\ last' = Returns("next", Head(pending))
  /\ UNCHANGED <<_root, kv>>

\* A map of keys 1..MaxIterKey that is updated while an iterator is stepped.
NextIterator ==
  \/ SortedMap_clear /\ UNCHANGED <<it, others>>
  \/ \E key \in IterKeySet, value \in ValSet :
       SortedMap_set(key, value) /\ UNCHANGED <<it, others>>
  \/ \E key \in IterKeySet : SortedMap_delete(key) /\ UNCHANGED <<it, others>>
  \/ SortedMap_deleteMin /\ UNCHANGED <<it, others>>
  \/ SortedMap_deleteMax /\ UNCHANGED <<it, others>>
  \/ SortedMap_iterator /\ UNCHANGED others
  \/ Iterator_next /\ UNCHANGED others

SpecIterator == Init /\ [][NextIterator]_vars

\* ---- SortedSet (sorted-set/) ----------------------------------------------
\* A set node has a value and no key.  rotateLeft, rotateRight, flipColors,
\* moveRedLeft, moveRedRight, balance, deleteMin, deleteMax, min, size and
\* isRed of sorted-set/ are the map's with other type parameters, and none of
\* them reads a key or a value: the operators above serve both.
SetNode(value, color, sz) ==
  [value |-> value, left |-> null, right |-> null, color |-> color,
   size |-> sz]

RECURSIVE SortedSet_has(_, _)
SortedSet_has(root, value) ==
  IF root = null THEN FALSE
  ELSE LET cmp == compareFn(value, root.value)
       IN IF cmp < 0 THEN SortedSet_has(root.left, value)
          ELSE IF cmp > 0 THEN SortedSet_has(root.right, value)
          ELSE TRUE

\* In-order list of values; [] for an empty tree.
RECURSIVE SortedSet_createSnapshot(_)
SortedSet_createSnapshot(root) ==
  IF root = null THEN << >>
  ELSE SortedSet_createSnapshot(root.left) \o <<root.value>>
       \o SortedSet_createSnapshot(root.right)

RECURSIVE SortedSet_insert(_, _)
SortedSet_insert(root, value) ==
  IF root = null THEN SetNode(value, RED, 1)
  ELSE LET cmp == compareFn(value, root.value)
       IN IF cmp < 0
            THEN LET l == SortedSet_insert(root.left, value)
                 IN IF l = AssertionError THEN AssertionError
                    ELSE balance([root EXCEPT !.left = l])
          ELSE IF cmp > 0
            THEN LET r == SortedSet_insert(root.right, value)
                 IN IF r = AssertionError THEN AssertionError
                    ELSE balance([root EXCEPT !.right = r])
          ELSE balance(root)

RECURSIVE SortedSet_remove(_, _)
SortedSet_remove(root, value) ==
  IF compareFn(value, root.value) < 0
    THEN IF root.left = null THEN AssertionError
         ELSE LET r1 == IF ~isRed(root.left) /\ ~isRed(root.left.left)
                          THEN moveRedLeft(root) ELSE root
              IN IF r1 = AssertionError THEN AssertionError
                 ELSE LET l == SortedSet_remove(r1.left, value)
                      IN IF l = AssertionError THEN AssertionError
                         ELSE balance([r1 EXCEPT !.left = l])
  ELSE LET r0 == IF isRed(root.left) THEN rotateRight(root) ELSE root
       IN IF r0 = AssertionError THEN AssertionError
          ELSE IF compareFn(value, r0.value) = 0 /\ r0.right = null THEN null
          ELSE IF r0.right = null THEN AssertionError
          ELSE LET r1 == IF ~isRed(r0.right) /\ ~isRed(r0.right.left)
                           THEN moveRedRight(r0) ELSE r0
               IN IF r1 = AssertionError THEN AssertionError
                  ELSE IF compareFn(value, r1.value) = 0
                    THEN LET minNode == min(r1.right)
                             r == deleteMin(r1.right)
                         IN IF r = AssertionError THEN AssertionError
                            ELSE balance([r1 EXCEPT !.value = minNode.value,
                                                    !.right = r])
                  ELSE LET r == SortedSet_remove(r1.right, value)
                       IN IF r = AssertionError THEN AssertionError
                          ELSE balance([r1 EXCEPT !.right = r])

\* SortedSet (src/unnamed/part_001).  A test holds one container, a SortedMap or
\* a SortedSet: _root is its _root, kv[v] is v while v is in a set, and the
\* calls of a set are recorded under the names "SortedSet.<method>".
InitSet ==
  /\ _root = null
  /\ kv = [k \in AllKeys |-> undefined]
  /\ last = Call("new SortedSet", "void")
  /\ it = NoIterator
  /\ twin = null
  /\ NoHeap /\ NoPQ /\ NoQueue /\ NoStack /\ NoUF

SortedSet_clear ==
  /\ Running
  /\ _root' = null
  /\ kv' = [k \in AllKeys |-> undefined]
  /\ last' = Call("SortedSet.clear", "void")

SortedSet_add(value) ==
  /\ Running
  /\ LET r == SortedSet_insert(_root, value)
     IN IF r = AssertionError
          THEN /\ _root' = _root
               /\ last' = Call("SortedSet.add", "AssertionError")
          ELSE /\ _root' = [r EXCEPT !.color = BLACK]
               /\ last' = Call("SortedSet.add", "this")
  /\ kv' = [kv EXCEPT ![value] = value]
  /\ sizesWithin(_root')

SortedSet_delete(value) ==
  /\ Running
  /\ IF ~SortedSet_has(_root, value)
       THEN /\ _root' = _root
            /\ last' = Call("SortedSet.delete", "false")
       ELSE LET r == SortedSet_remove(redden(_root), value)
            IN IF r = AssertionError
                 THEN /\ _root' = _root
                      /\ last' = Call("SortedSet.delete", "AssertionError")
                 ELSE /\ _root' = blacken(r)
                      /\ last' = Call("SortedSet.delete", "true")
  /\ kv' = [kv EXCEPT ![value] = undefined]
  /\ sizesWithin(_root')

SortedSet_deleteMin ==
  /\ Running
  /\ IF _root = null
       THEN /\ _root' = _root
            /\ kv' = kv
            /\ last' = Call("SortedSet.deleteMin", "NoSuchElementError")
       ELSE /\ LET r == deleteMin(redden(_root))
               IN IF r = AssertionError
                    THEN /\ _root' = _root
                         /\ last' = Call("SortedSet.deleteMin",
                                         "AssertionError")
                    ELSE /\ _root' = blacken(r)
                         /\ last' = Call("SortedSet.deleteMin", "void")
            /\ kv' = [kv EXCEPT ![leastPresent] = undefined]
  /\ sizesWithin(_root')

SortedSet_deleteMax ==
  /\ Running
  /\ IF _root = null
       THEN /\ _root' = _root
            /\ kv' = kv
            /\ last' = Call("SortedSet.deleteMax", "NoSuchElementError")
       ELSE /\ LET r == deleteMax(redden(_root))
               IN IF r = AssertionError
                    THEN /\ _root' = _root
                         /\ last' = Call("SortedSet.deleteMax",
                                         "AssertionError")
                    ELSE /\ _root' = blacken(r)
                         /\ last' = Call("SortedSet.deleteMax", "void")
            /\ kv' = [kv EXCEPT ![greatestPresent] = undefined]
  /\ sizesWithin(_root')

\* for (const value of set) ...: val is the list of values yielded.
SortedSet_iterate ==
  /\ Running
  /\ last' = Returns("SortedSet.iterate", SortedSet_createSnapshot(_root))
  /\ UNCHANGED <<_root, kv>>

\* The last call was an updating call of a map, or its construction.
OfMap == last.op \in {"new", "clear", "set", "delete", "deleteMin", "deleteMax"}

\* The last call was an updating call of a set, or its construction.
OfSet ==
  last.op \in {"new SortedSet", "SortedSet.clear", "SortedSet.add",
               "SortedSet.delete", "SortedSet.deleteMin",
               "SortedSet.deleteMax"}

\* A SortedMap or a SortedSet that is updated and iterated over; what follows
\* an iteration is explored from the state the iteration was made in.
NextIterate ==
  \/ OfMap /\ SortedMap_clear /\ UNCHANGED <<it, others>>
  \/ \E key \in KeySet, value \in ValSet :
       OfMap /\ SortedMap_set(key, value) /\ UNCHANGED <<it, others>>
  \/ \E key \in KeySet :
       OfMap /\ SortedMap_delete(key) /\ UNCHANGED <<it, others>>
  \/ OfMap /\ SortedMap_deleteMin /\ UNCHANGED <<it, others>>
  \/ OfMap /\ SortedMap_deleteMax /\ UNCHANGED <<it, others>>
  \/ OfMap /\ SortedMap_iterate /\ UNCHANGED <<it, others>>
  \/ OfSet /\ SortedSet_clear /\ UNCHANGED <<it, others>>
  \/ \E value \in KeySet :
       OfSet /\ SortedSet_add(value) /\ UNCHANGED <<it, others>>
  \/ \E value \in KeySet :
       OfSet /\ SortedSet_delete(value) /\ UNCHANGED <<it, others>>
  \/ OfSet /\ SortedSet_deleteMin /\ UNCHANGED <<it, others>>
  \/ OfSet /\ SortedSet_deleteMax /\ UNCHANGED <<it, others>>
  \/ OfSet /\ SortedSet_iterate /\ UNCHANGED <<it, others>>

SpecIterate == (Init \/ InitSet) /\ [][NextIterate]_vars

\* floor and ceiling of sorted-set/BST.ts.
RECURSIVE SortedSet_floor(_, _)
SortedSet_floor(root, value) ==
  IF root = null THEN null
  ELSE LET cmp == compareFn(value, root.value)
       IN IF cmp = 0 THEN root
          ELSE IF cmp < 0 THEN SortedSet_floor(root.left, value)
          ELSE LET node == SortedSet_floor(root.right, value)
               IN IF node # null THEN node ELSE root

RECURSIVE SortedSet_ceiling(_, _)
SortedSet_ceiling(root, value) ==
  IF root = null THEN null
  ELSE LET cmp == compareFn(value, root.value)
       IN IF cmp = 0 THEN root
          ELSE IF cmp > 0 THEN SortedSet_ceiling(root.right, value)
          ELSE LET node == SortedSet_ceiling(root.left, value)
               IN IF node # null THEN node ELSE root

\* A SortedMap and a SortedSet side by side: every updating call on the map
\* is followed by the matching call on the set, add(key) for set(key, value).
\* twin._root is the set's _root and twin.ret how the set's call ended.
Twin(root, ret) == [_root |-> root, ret |-> ret]

InitTwin ==
  /\ _root = null
  /\ kv = [k \in AllKeys |-> undefined]
  /\ last = Call("new", "void")
  /\ it = NoIterator
  /\ twin = Twin(null, "void")
  /\ NoHeap /\ NoPQ /\ NoQueue /\ NoStack /\ NoUF

\* What a call on the two containers leaves alone.
notTwin == <<it, heapVars, pqVars, queueVars, stackVars, ufVars>>

Twin_clear == twin' = Twin(null, "void")

Twin_add(value) ==
  twin' = LET r == SortedSet_insert(twin._root, value)
          IN IF r = AssertionError THEN Twin(twin._root, "AssertionError")
             ELSE Twin([r EXCEPT !.color = BLACK], "this")

\* A mutant of Twin_delete: the set's delete leaves the color of the root as
\* remove returned it.
Twin_delete_keepsRootColor(value) ==
  twin' = IF ~SortedSet_has(twin._root, value) THEN Twin(twin._root, "false")
          ELSE LET r == SortedSet_remove(redden(twin._root), value)
               IN IF r = AssertionError
                    THEN Twin(twin._root, "AssertionError")
                  ELSE Twin(r, "true")

Twin_delete(value) ==
  twin' = IF ~SortedSet_has(twin._root, value) THEN Twin(twin._root, "false")
          ELSE LET r == SortedSet_remove(redden(twin._root), value)
               IN IF r = AssertionError
                    THEN Twin(twin._root, "AssertionError")
                  ELSE Twin(blacken(r), "true")

Twin_deleteMin ==
  twin' = IF twin._root = null THEN Twin(twin._root, "NoSuchElementError")
          ELSE LET r == deleteMin(redden(twin._root))
               IN IF r = AssertionError
                    THEN Twin(twin._root, "AssertionError")
                  ELSE Twin(blacken(r), "void")

Twin_deleteMax ==
  twin' = IF twin._root = null THEN Twin(twin._root, "NoSuchElementError")
          ELSE LET r == deleteMax(redden(twin._root))
               IN IF r = AssertionError
                    THEN Twin(twin._root, "AssertionError")
                  ELSE Twin(blacken(r), "void")

NextTwin ==
  \/ SortedMap_clear /\ Twin_clear /\ UNCHANGED notTwin
  \/ \E key \in KeySet, value \in ValSet :
       SortedMap_set(key, value) /\ Twin_add(key) /\ UNCHANGED notTwin
  \/ \E key \in KeySet :
       SortedMap_delete(key) /\ Twin_delete(key) /\ UNCHANGED notTwin
  \/ SortedMap_deleteMin /\ Twin_deleteMin /\ UNCHANGED notTwin
  \/ SortedMap_deleteMax /\ Twin_deleteMax /\ UNCHANGED notTwin

SpecTwin == InitTwin /\ [][NextTwin]_vars

\* ---- common/helpers.ts, ultils (Collection) --------------------------------
\* How a function that works on an array in place ends: value is the array as
\* the function left it, throws the name of the error thrown or "none".
Normal(value) == [value |-> value, throws |-> "none"]
Throw(value, error) == [value |-> value, throws |-> error]

\* Arrays are sequences: index idx of the code is position idx + 1.
exchange(a, idx1, idx2) ==
  IF idx1 < 0 \/ idx1 >= Len(a) THEN Throw(a, "NoSuchElementError")
  ELSE IF idx2 < 0 \/ idx2 >= Len(a) THEN Throw(a, "NoSuchElementError")
  ELSE Normal([a EXCEPT ![idx1 + 1] = a[idx2 + 1], ![idx2 + 1] = a[idx1 + 1]])

NoTree ==
  /\ _root = null
  /\ kv = [k \in AllKeys |-> undefined]
  /\ it = NoIterator
  /\ twin = null

\* ---- Heap (heap/index.ts) ------------------------------------------------
\* Mutant of canBeParentFn: an item cannot be parent of an equal item.
canBeParentFn_strict(class, a, b) ==
  IF class = "MaxHeap" THEN compareFn(a, b) > 0 ELSE compareFn(a, b) < 0

\* this._canBeParentFn of a MaxHeap and of a MinHeap, by the name of the class.
canBeParentFn(class, a, b) ==
  IF class = "MaxHeap" THEN compareFn(a, b) >= 0 ELSE compareFn(a, b) <= 0

RECURSIVE heapifyUp(_, _, _)
heapifyUp(array, class, idx) ==
  IF idx > 0
    THEN LET parentIdx == (idx - 1) \div 2
         IN IF canBeParentFn(class, array[parentIdx + 1], array[idx + 1])
              THEN Normal(array)
            ELSE LET x == exchange(array, parentIdx, idx)
                 IN IF x.throws # "none" THEN x
                    ELSE heapifyUp(x.value, class, parentIdx)
  ELSE Normal(array)

\* The while loop of heapifyDown, entered with the current idx and childIdx;
\* the loop assigns idx and leaves childIdx as it is.
RECURSIVE heapifyDown_while(_, _, _, _, _)
heapifyDown_while(array, class, idx, childIdx, n) ==
  IF childIdx < n
    THEN LET c == IF /\ childIdx + 1 < n
                     /\ canBeParentFn(class, array[childIdx + 2],
                                      array[childIdx + 1])
                    THEN childIdx + 1 ELSE childIdx
         IN IF canBeParentFn(class, array[idx + 1], array[c + 1])
              THEN Normal(array)
            ELSE LET x == exchange(array, idx, c)
                 IN IF x.throws # "none" THEN x
                    ELSE heapifyDown_while(x.value, class, c, c, n)
  ELSE Normal(array)

heapifyDown(array, class, idx, n) ==
  heapifyDown_while(array, class, idx, 2 * idx + 1, n)

NewHeap(class) == [_items |-> << >>, _size |-> 0, _canBeParentFn |-> class]

InitHeap ==
  /\ heap \in {NewHeap("MaxHeap"), NewHeap("MinHeap")}
  /\ added = [item \in ItemSet |-> 0]
  /\ frame = null
  /\ last = Call("new Heap", "void")
  /\ NoTree /\ NoPQ /\ NoQueue /\ NoStack /\ NoUF

notHeap ==
  <<treeVars, twinVars, pqVars, queueVars, stackVars, ufVars>>

\* _items only grows; add is explored while it holds fewer than MaxHeapLen
\* items.
Heap_add(item) ==
  /\ Len(heap._items) < MaxHeapLen
  /\ LET pushed == Append(heap._items, item)
         sz == heap._size + 1
         x == heapifyUp(pushed, heap._canBeParentFn, sz - 1)
     IN /\ heap' = [heap EXCEPT !._items = x.value, !._size = sz]
        /\ last' = Call("Heap.add", IF x.throws = "none" THEN "void"
                                    ELSE x.throws)
  /\ added' = [added EXCEPT ![item] = @ + 1]
  /\ UNCHANGED frame
  /\ UNCHANGED notHeap

\* added loses one occurrence of the item returned, if it holds one.
Heap_remove ==
  /\ IF heap._size = 0
       THEN /\ last' = Call("Heap.remove", "NoSuchElementError")
            /\ UNCHANGED <<heap, added>>
       ELSE LET item == heap._items[1]
                x == exchange(heap._items, 0, heap._size - 1)
                sz == heap._size - 1
                y == heapifyDown(x.value, heap._canBeParentFn, 0,
                                 Len(x.value))
            IN IF x.throws # "none"
                 THEN /\ heap' = [heap EXCEPT !._items = x.value]
                      /\ last' = Call("Heap.remove", x.throws)
                      /\ added' = added
               ELSE IF y.throws # "none"
                 THEN /\ heap' = [heap EXCEPT !._items = y.value,
                                              !._size = sz]
                      /\ last' = Call("Heap.remove", y.throws)
                      /\ added' = added
               ELSE /\ heap' = [heap EXCEPT !._items = y.value,
                                            !._size = sz]
                    /\ last' = Returns("Heap.remove", item)
                    /\ added' = [added EXCEPT
                                   ![item] = IF @ > 0 THEN @ - 1 ELSE @]
  /\ UNCHANGED frame
  /\ UNCHANGED notHeap

Heap_peek ==
  /\ last' = IF heap._size = 0 THEN Call("Heap.peek", "NoSuchElementError")
             ELSE Returns("Heap.peek", heap._items[1])
  /\ UNCHANGED <<heap, added, frame>>
  /\ UNCHANGED notHeap

NextHeap ==
  \/ \E item \in ItemSet : Heap_add(item)
  \/ Heap_remove
  \/ Heap_peek

SpecHeap == InitHeap /\ [][NextHeap]_vars

\* heapifyDown on its own: every array of up to MaxHeapLen items, and calls
\* with every idx inside the array and every n up to its length.  last.val
\* holds the arguments idx and n of the call.
InitHeapify ==
  /\ \E class \in {"MaxHeap", "MinHeap"}, len \in 0..MaxHeapLen :
       \E items \in [1..len -> ItemSet] :
         heap = [_items |-> items, _size |-> len, _canBeParentFn |-> class]
  /\ added = << >>
  /\ frame = null
  /\ last = Call("new", "void")
  /\ NoTree /\ NoPQ /\ NoQueue /\ NoStack /\ NoUF

heapifyDown_call(idx, n) ==
  /\ LET x == heapifyDown(heap._items, heap._canBeParentFn, idx, n)
     IN /\ heap' = [heap EXCEPT !._items = x.value]
        /\ last' = [op |-> "heapifyDown",
                    ret |-> IF x.throws = "none" THEN "void" ELSE x.throws,
                    val |-> <<idx, n>>]
  /\ UNCHANGED <<added, frame>>
  /\ UNCHANGED notHeap

NextHeapify ==
  \E idx \in 0..(Len(heap._items) - 1), n \in 0..Len(heap._items) :
    heapifyDown_call(idx, n)

SpecHeapify == InitHeapify /\ [][NextHeapify]_vars

\* add and remove one loop iteration at a time.  frame holds the call in
\* progress and the locals of its loop: idx, childIdx and n of heapifyDown,
\* idx of heapifyUp; item is what remove returns.
Frame(call, idx, childIdx, n, item) ==
  [call |-> call, idx |-> idx, childIdx |-> childIdx, n |-> n, item |-> item]

\* add up to the first test of heapifyUp's loop condition.
add_enter(item) ==
  /\ frame = null
  /\ Len(heap._items) < MaxHeapLen
  /\ heap' = [heap EXCEPT !._items = Append(heap._items, item),
                          !._size = heap._size + 1]
  /\ frame' = Frame("Heap.add", heap._size, 0, 0, item)
  /\ added' = [added EXCEPT ![item] = @ + 1]
  /\ UNCHANGED last
  /\ UNCHANGED notHeap

\* One test of `while (idx > 0)` and the loop body after it; add returns when
\* the loop is left.
heapifyUp_iterate ==
  /\ frame # null /\ frame.call = "Heap.add"
  /\ LET idx == frame.idx
         parentIdx == (idx - 1) \div 2
         x == exchange(heap._items, parentIdx, idx)
     IN IF idx > 0 /\ ~canBeParentFn(heap._canBeParentFn,
                                     heap._items[parentIdx + 1],
                                     heap._items[idx + 1])
          THEN IF x.throws # "none"
                 THEN /\ frame' = null
                      /\ last' = Call("Heap.add", x.throws)
                      /\ UNCHANGED heap
               ELSE /\ heap' = [heap EXCEPT !._items = x.value]
                    /\ frame' = [frame EXCEPT !.idx = parentIdx]
                    /\ UNCHANGED last
        ELSE /\ frame' = null
             /\ last' = Call("Heap.add", "void")
             /\ UNCHANGED heap
  /\ UNCHANGED added
  /\ UNCHANGED notHeap

\* remove up to the first test of heapifyDown's loop condition, or its throw
\* on an empty heap.
remove_enter ==
  /\ frame = null
  /\ IF heap._size = 0
       THEN /\ last' = Call("Heap.remove", "NoSuchElementError")
            /\ UNCHANGED <<heap, frame>>
     ELSE LET x == exchange(heap._items, 0, heap._size - 1)
          IN IF x.throws # "none"
               THEN /\ last' = Call("Heap.remove", x.throws)
                    /\ UNCHANGED <<heap, frame>>
             ELSE /\ heap' = [heap EXCEPT !._items = x.value,
                                          !._size = heap._size - 1]
                  /\ frame' = Frame("Heap.remove", 0, 1, Len(x.value),
                                    heap._items[1])
                  /\ UNCHANGED last
  /\ UNCHANGED added
  /\ UNCHANGED notHeap

\* One test of `while (childIdx < n)` and the loop body after it; remove
\* returns when the loop is left, by its condition or by break.
heapifyDown_iterate ==
  /\ frame # null /\ frame.call = "Heap.remove"
  /\ LET idx == frame.idx
         n == frame.n
         class == heap._canBeParentFn
         c == IF /\ frame.childIdx + 1 < n
                 /\ canBeParentFn(class, heap._items[frame.childIdx + 2],
                                  heap._items[frame.childIdx + 1])
                THEN frame.childIdx + 1 ELSE frame.childIdx
         x == exchange(heap._items, idx, c)
     IN IF frame.childIdx < n
           /\ ~canBeParentFn(class, heap._items[idx + 1], heap._items[c + 1])
          THEN IF x.throws # "none"
                 THEN /\ frame' = null
                      /\ last' = Call("Heap.remove", x.throws)
                      /\ UNCHANGED <<heap, added>>
               ELSE /\ heap' = [heap EXCEPT !._items = x.value]
                    /\ frame' = [frame EXCEPT !.idx = c, !.childIdx = c]
                    /\ UNCHANGED <<last, added>>
        ELSE /\ frame' = null
             /\ last' = Returns("Heap.remove", frame.item)
             /\ added' = [added EXCEPT
                            ![frame.item] = IF @ > 0 THEN @ - 1 ELSE @]
             /\ UNCHANGED heap
  /\ UNCHANGED notHeap

NextHeapSteps ==
  \/ \E item \in ItemSet : add_enter(item)
  \/ heapifyUp_iterate
  \/ remove_enter
  \/ heapifyDown_iterate

\* A call that has begun keeps executing: its loop takes the next iteration.
SpecHeapSteps ==
  /\ InitHeap
  /\ [][NextHeapSteps]_vars
  /\ WF_vars(heapifyUp_iterate)
  /\ WF_vars(heapifyDown_iterate)

\* ---- IndexedPQ (priority-queue/abstractPQ.ts, indexedPQ.ts) --------------
\* A number handed to the queue as an item: an integer n, or a number that is
\* not an integer (0.5 in the tests), which is also what reading an array
\* beyond its end gives to Number.isInteger.
Integer(n) == [n |-> n, isInteger |-> TRUE]
NotInteger == [n |-> 0, isInteger |-> FALSE]

\* What a slot of _priorities holds: nothing yet (new Array(n)), null, or a
\* priority.
empty == [empty |-> TRUE]
Priority(p) == [priority |-> p]

\* compareFn of the tests (a - b) on two slots; null counts as 0 there.
comparePriority(a, b) ==
  (IF a = null THEN 0 ELSE a.priority) - (IF b = null THEN 0 ELSE b.priority)

NewIndexedPQ(class, n) ==
  [_heap |-> << >>, _size |-> 0, _idxs |-> [i \in 1..n |-> -1],
   _priorities |-> [i \in 1..n |-> empty], class |-> class]

_validateItem(q, item) ==
  IF ~item.isInteger THEN "RangeError"
  ELSE IF item.n < 0 \/ item.n >= Len(q._idxs) THEN "RangeError"
  ELSE "none"

IndexedPQ_has(q, item) ==
  IF _validateItem(q, item) # "none"
    THEN Throw(FALSE, _validateItem(q, item))
  ELSE Normal(q._idxs[item.n + 1] # -1)

IndexedPQ_getPriority(q, item) ==
  IF _validateItem(q, item) # "none"
    THEN Throw(empty, _validateItem(q, item))
  ELSE IF ~IndexedPQ_has(q, item).value
    THEN Throw(empty, "NoSuchElementError")
  ELSE Normal(q._priorities[item.n + 1])

_setPriority(q, item, priority) ==
  [q EXCEPT !._priorities[item + 1] = priority]

_setIndex(q, item, idx) == [q EXCEPT !._idxs[item + 1] = idx]

_getIndex(q, item) == q._idxs[item + 1]

\* The argument is used as an item, whatever the caller passes.
_deleteItem(q, item) ==
  [q EXCEPT !._idxs[item + 1] = -1, !._priorities[item + 1] = null]

\* this._heap[idx] as getPriority receives it.
heapAt(q, idx) ==
  IF idx >= 0 /\ idx < Len(q._heap) THEN Integer(q._heap[idx + 1])
  ELSE NotInteger

_canBeParent(q, idx1, idx2) ==
  LET p1 == IndexedPQ_getPriority(q, heapAt(q, idx1))
      p2 == IndexedPQ_getPriority(q, heapAt(q, idx2))
  IN IF p1.throws # "none" THEN Throw(FALSE, p1.throws)
     ELSE IF p2.throws # "none" THEN Throw(FALSE, p2.throws)
     ELSE IF p1.value = empty \/ p2.value = empty THEN Normal(FALSE)
     ELSE IF q.class = "IndexedMaxPQ"
       THEN Normal(comparePriority(p1.value, p2.value) >= 0)
     ELSE Normal(comparePriority(p1.value, p2.value) <= 0)

_exchange(q, idx1, idx2) ==
  LET x == exchange(q._heap, idx1, idx2)
  IN IF x.throws # "none" THEN Throw(q, x.throws)
     ELSE LET q1 == [q EXCEPT !._heap = x.value]
              q2 == _setIndex(q1, q1._heap[idx1 + 1], idx1)
          IN Normal(_setIndex(q2, q2._heap[idx2 + 1], idx2))

RECURSIVE _heapifyUp(_, _)
_heapifyUp(q, idx) ==
  IF idx > 0
    THEN LET parentIdx == (idx - 1) \div 2
             c == _canBeParent(q, parentIdx, idx)
             x == _exchange(q, parentIdx, idx)
         IN IF c.throws # "none" THEN Throw(q, c.throws)
            ELSE IF c.value THEN Normal(q)
            ELSE IF x.throws # "none" THEN x
            ELSE _heapifyUp(x.value, parentIdx)
  ELSE Normal(q)

RECURSIVE _heapifyDown(_, _)
_heapifyDown(q, idx) ==
  LET n == q._size
      left == 2 * idx + 1
  IN IF left < n
       THEN LET r == IF left + 1 < n THEN _canBeParent(q, left + 1, left)
                     ELSE Normal(FALSE)
                childIdx == IF r.value THEN left + 1 ELSE left
                c == _canBeParent(q, idx, childIdx)
                x == _exchange(q, idx, childIdx)
            IN IF r.throws # "none" THEN Throw(q, r.throws)
               ELSE IF c.throws # "none" THEN Throw(q, c.throws)
               ELSE IF c.value THEN Normal(q)
               ELSE IF x.throws # "none" THEN x
               ELSE _heapifyDown(x.value, childIdx)
     ELSE Normal(q)

\* A call that ends by x: the object as x left it and the call's outcome.
Ends(op, x) ==
  /\ pq' = x.value
  /\ last' = Call(op, IF x.throws = "none" THEN "void" ELSE x.throws)

Fails(op, error) ==
  /\ last' = Call(op, error)
  /\ UNCHANGED <<pq, given>>

Labels == 0..(PQCapacity - 1)
PQArgs == {Integer(n) : n \in -1..PQCapacity} \cup {NotInteger}

InitPQ ==
  /\ pq \in {NewIndexedPQ("IndexedMaxPQ", PQCapacity),
             NewIndexedPQ("IndexedMinPQ", PQCapacity)}
  /\ given = [item \in Labels |-> empty]
  /\ last = Call("new IndexedPQ", "void")
  /\ NoTree /\ NoHeap /\ NoQueue /\ NoStack /\ NoUF

notPQ ==
  <<treeVars, twinVars, heapVars, queueVars, stackVars, ufVars>>

PQ_has(item) ==
  /\ LET x == IndexedPQ_has(pq, item)
     IN last' = IF x.throws # "none" THEN Call("PQ.has", x.throws)
                ELSE Returns("PQ.has", x.value)
  /\ UNCHANGED <<pq, given>>
  /\ UNCHANGED notPQ

PQ_getPriority(item) ==
  /\ LET x == IndexedPQ_getPriority(pq, item)
     IN last' = IF x.throws # "none" THEN Call("PQ.getPriority", x.throws)
                ELSE Returns("PQ.getPriority", x.value)
  /\ UNCHANGED <<pq, given>>
  /\ UNCHANGED notPQ

PQ_size ==
  /\ last' = Returns("PQ.size", pq._size)
  /\ UNCHANGED <<pq, given>>
  /\ UNCHANGED notPQ

\* _heap only grows; enqueue is explored while it holds fewer than MaxPQLen
\* items.  given follows the calls that return: it is the priority last given
\* to each item enqueued and not since returned by dequeue or handed to
\* delete.
PQ_enqueue(item, priority) ==
  /\ Len(pq._heap) < MaxPQLen
  /\ IF _validateItem(pq, item) # "none"
       THEN Fails("PQ.enqueue", _validateItem(pq, item))
     ELSE IF IndexedPQ_has(pq, item).value
       THEN Fails("PQ.enqueue", "IlligalArgumentError")
     ELSE LET q1 == _setIndex(pq, item.n, pq._size)
              q2 == [q1 EXCEPT !._heap = Append(@, item.n)]
              q3 == _setPriority(q2, item.n, Priority(priority))
              q4 == [q3 EXCEPT !._size = @ + 1]
              x == _heapifyUp(q4, _getIndex(q4, item.n))
          IN /\ Ends("PQ.enqueue", x)
             /\ given' = IF x.throws = "none"
                           THEN [given EXCEPT ![item.n] = Priority(priority)]
                         ELSE given
  /\ UNCHANGED notPQ

PQ_dequeue ==
  /\ IF pq._size = 0 THEN Fails("PQ.dequeue", "NoSuchElementError")
     ELSE LET item == pq._heap[1]
              x == _exchange(pq, 0, pq._size - 1)
              q2 == _deleteItem(x.value, x.value._size - 1)
              q3 == [q2 EXCEPT !._size = @ - 1]
              y == _heapifyDown(q3, 0)
          IN IF x.throws # "none"
               THEN Ends("PQ.dequeue", x) /\ given' = given
             ELSE IF y.throws # "none"
               THEN Ends("PQ.dequeue", y) /\ given' = given
             ELSE /\ pq' = y.value
                  /\ last' = Returns("PQ.dequeue", item)
                  /\ given' = [given EXCEPT ![item] = empty]
  /\ UNCHANGED notPQ

PQ_peek ==
  /\ last' = IF pq._size = 0 THEN Call("PQ.peek", "NoSuchElementError")
             ELSE Returns("PQ.peek", pq._heap[1])
  /\ UNCHANGED <<pq, given>>
  /\ UNCHANGED notPQ

PQ_change(item, priority) ==
  /\ IF IndexedPQ_has(pq, item).throws # "none"
       THEN Fails("PQ.change", IndexedPQ_has(pq, item).throws)
     ELSE IF ~IndexedPQ_has(pq, item).value
       THEN Fails("PQ.change", "NoSuchElementError")
     ELSE LET q1 == _setPriority(pq, item.n, Priority(priority))
              idx == _getIndex(q1, item.n)
              x == _heapifyUp(q1, idx)
              y == _heapifyDown(x.value, idx)
          IN /\ Ends("PQ.change", IF x.throws # "none" THEN x ELSE y)
             /\ given' = IF x.throws = "none" /\ y.throws = "none"
                           THEN [given EXCEPT ![item.n] = Priority(priority)]
                         ELSE given
  /\ UNCHANGED notPQ

PQ_delete(item) ==
  /\ IF IndexedPQ_has(pq, item).throws # "none"
       THEN Fails("PQ.delete", IndexedPQ_has(pq, item).throws)
     ELSE IF ~IndexedPQ_has(pq, item).value
       THEN Fails("PQ.delete", "NoSuchElementError")
     ELSE LET idx == _getIndex(pq, item.n)
              x == _exchange(pq, idx, pq._size - 1)
              q2 == _deleteItem(x.value, x.value._size - 1)
              q3 == [q2 EXCEPT !._size = @ - 1]
              y == _heapifyUp(q3, idx)
              z == _heapifyDown(y.value, idx)
          IN /\ Ends("PQ.delete", IF x.throws # "none" THEN x
                                  ELSE IF y.throws # "none" THEN y ELSE z)
             /\ given' = IF /\ x.throws = "none" /\ y.throws = "none"
                            /\ z.throws = "none"
                           THEN [given EXCEPT ![item.n] = empty]
                         ELSE given
  /\ UNCHANGED notPQ

\* The calls that only read.  A call made after one of them finds the object
\* as the reading call found it, so SpecPQ explores no call after a reading
\* call.
PQReads == {"PQ.has", "PQ.getPriority", "PQ.size", "PQ.peek"}
PQUnread == last.op \notin PQReads

NextPQ ==
  \/ PQUnread /\ \E item \in PQArgs : PQ_has(item)
  \/ PQUnread /\ \E item \in PQArgs : PQ_getPriority(item)
  \/ PQUnread /\ PQ_size
  \/ PQUnread /\ \E item \in PQArgs, priority \in PrioritySet :
                   PQ_enqueue(item, priority)
  \/ PQUnread /\ PQ_dequeue
  \/ PQUnread /\ PQ_peek
  \/ PQUnread /\ \E item \in PQArgs, priority \in PrioritySet :
                   PQ_change(item, priority)
  \/ PQUnread /\ \E item \in PQArgs : PQ_delete(item)

SpecPQ == InitPQ /\ [][NextPQ]_vars

\* ---- singly-linked-list/index.ts ------------------------------------------
\* Node objects live in a store, id -> [item, next]; a reference to one is
\* Ref(id), and next is a reference or null.  Two references with the same id
\* are the same object.
Ref(id) == [ref |-> id]
ListNode(item, next) == [item |-> item, next |-> next]

\* new Node(...): the least id the store does not use.
newId(store) ==
  CHOOSE id \in 1..(Cardinality(DOMAIN store) + 1) :
    /\ id \notin DOMAIN store
    /\ \A other \in 1..(id - 1) : other \in DOMAIN store

\* The items getIterator(head) yields when run to its end.
RECURSIVE getIterator(_, _)
getIterator(store, head) ==
  IF head = null THEN << >>
  ELSE <<store[head.ref].item>> \o getIterator(store, store[head.ref].next)

RECURSIVE reachable(_, _)
reachable(store, head) ==
  IF head = null THEN {}
  ELSE {head.ref} \cup reachable(store, store[head.ref].next)

\* ---- Queue (queue/index.ts) -----------------------------------------------
NewQueue ==
  [_front |-> null, _back |-> null, _size |-> 0, node |-> [id \in {} |-> null]]

\* The object without the nodes no reference leads to any more.
collected(q) ==
  [q EXCEPT !.node =
     [id \in reachable(q.node, q._front) \cup reachable(q.node, q._back)
        |-> q.node[id]]]

InitQueue ==
  /\ queue = NewQueue
  /\ fifo = << >>
  /\ last = Call("new Queue", "void")
  /\ NoTree /\ NoHeap /\ NoPQ /\ NoStack /\ NoUF

notQueue ==
  <<treeVars, twinVars, heapVars, pqVars, stackVars, ufVars>>

\* enqueue is explored while the queue holds fewer than MaxQueueLen items.
\* fifo follows the calls: enqueue appends its item, dequeue on a queue with
\* items drops the first.
Queue_enqueue(item) ==
  /\ queue._size < MaxQueueLen
  /\ LET oldBack == queue._back
         id == newId(queue.node)
         q1 == [queue EXCEPT !._back = Ref(id),
                             !.node = [i \in DOMAIN @ \cup {id} |->
                                         IF i = id THEN ListNode(item, null)
                                         ELSE @[i]]]
         q2 == IF oldBack # null
                 THEN [q1 EXCEPT !.node[oldBack.ref].next = q1._back]
               ELSE [q1 EXCEPT !._front = q1._back]
     IN queue' = collected([q2 EXCEPT !._size = @ + 1])
  /\ last' = Call("Queue.enqueue", "void")
  /\ fifo' = Append(fifo, item)
  /\ UNCHANGED notQueue

Queue_dequeue_keepsBack ==
  /\ IF queue._size = 0
       THEN /\ last' = Call("Queue.dequeue", "NoSuchElementError")
            /\ UNCHANGED queue
     ELSE IF queue._front = null
       THEN /\ last' = Call("Queue.dequeue", "TypeError")
            /\ UNCHANGED queue
     ELSE LET front == queue.node[queue._front.ref]
              q1 == [queue EXCEPT !._front = front.next]
          IN /\ queue' = collected([q1 EXCEPT !._size = @ - 1])
             /\ last' = Returns("Queue.dequeue", front.item)
  /\ fifo' = IF fifo = << >> THEN fifo ELSE Tail(fifo)
  /\ UNCHANGED notQueue

Queue_dequeue ==
  /\ IF queue._size = 0
       THEN /\ last' = Call("Queue.dequeue", "NoSuchElementError")
            /\ UNCHANGED queue
     ELSE IF queue._front = null
       THEN /\ last' = Call("Queue.dequeue", "TypeError")
            /\ UNCHANGED queue
     ELSE LET front == queue.node[queue._front.ref]
              q1 == [queue EXCEPT !._front = front.next]
              q2 == IF q1._front = null THEN [q1 EXCEPT !._back = null]
                    ELSE q1
          IN /\ queue' = collected([q2 EXCEPT !._size = @ - 1])
             /\ last' = Returns("Queue.dequeue", front.item)
  /\ fifo' = IF fifo = << >> THEN fifo ELSE Tail(fifo)
  /\ UNCHANGED notQueue

Queue_peek ==
  /\ last' = IF queue._size = 0
               THEN Call("Queue.peek", "NoSuchElementError")
             ELSE IF queue._front = null THEN Call("Queue.peek", "TypeError")
             ELSE Returns("Queue.peek", queue.node[queue._front.ref].item)
  /\ UNCHANGED <<queue, fifo>>
  /\ UNCHANGED notQueue

Queue_size ==
  /\ last' = Returns("Queue.size", queue._size)
  /\ UNCHANGED <<queue, fifo>>
  /\ UNCHANGED notQueue

\* for (const item of queue), run to its end.
Queue_iterate ==
  /\ last' = Returns("Queue.iterate", getIterator(queue.node, queue._front))
  /\ UNCHANGED <<queue, fifo>>
  /\ UNCHANGED notQueue

NextQueue ==
  \/ \E item \in ItemSet : Queue_enqueue(item)
  \/ Queue_dequeue
  \/ Queue_peek
  \/ Queue_size
  \/ Queue_iterate

SpecQueue == InitQueue /\ [][NextQueue]_vars

\* ---- Stack (stack/index.ts) -----------------------------------------------
NewStack == [_top |-> null, _size |-> 0, node |-> [id \in {} |-> null]]

\* The object without the nodes no reference leads to any more.
collectedStack(s) ==
  [s EXCEPT !.node = [id \in reachable(s.node, s._top) |-> s.node[id]]]

InitStack ==
  /\ stack = NewStack
  /\ lifo = << >>
  /\ last = Call("new Stack", "void")
  /\ NoTree /\ NoHeap /\ NoPQ /\ NoQueue /\ NoUF

notStack ==
  <<treeVars, twinVars, heapVars, pqVars, queueVars, ufVars>>

Stack_push_dropsNext(item) ==
  /\ stack._size < MaxStackLen
  /\ LET id == newId(stack.node)
         s1 == [stack EXCEPT !._top = Ref(id),
                             !.node = [i \in DOMAIN @ \cup {id} |->
                                         IF i = id THEN ListNode(item, null)
                                         ELSE @[i]]]
     IN stack' = collectedStack([s1 EXCEPT !._size = @ + 1])
  /\ last' = Call("Stack.push", "void")
  /\ lifo' = <<item>> \o lifo
  /\ UNCHANGED notStack

\* push is explored while the stack holds fewer than MaxStackLen items.  lifo
\* follows the calls: push puts its item first, pop on a stack with items
\* drops the first.
Stack_push(item) ==
  /\ stack._size < MaxStackLen
  /\ LET id == newId(stack.node)
         s1 == [stack EXCEPT !._top = Ref(id),
                             !.node = [i \in DOMAIN @ \cup {id} |->
                                         IF i = id
                                           THEN ListNode(item, stack._top)
                                         ELSE @[i]]]
     IN stack' = collectedStack([s1 EXCEPT !._size = @ + 1])
  /\ last' = Call("Stack.push", "void")
  /\ lifo' = <<item>> \o lifo
  /\ UNCHANGED notStack

Stack_pop ==
  /\ IF stack._size = 0
       THEN /\ last' = Call("Stack.pop", "NoSuchElementError")
            /\ UNCHANGED stack
     ELSE IF stack._top = null
       THEN /\ last' = Call("Stack.pop", "TypeError")
            /\ UNCHANGED stack
     ELSE LET top == stack.node[stack._top.ref]
              s1 == [stack EXCEPT !._top = top.next]
          IN /\ stack' = collectedStack([s1 EXCEPT !._size = @ - 1])
             /\ last' = Returns("Stack.pop", top.item)
  /\ lifo' = IF lifo = << >> THEN lifo ELSE Tail(lifo)
  /\ UNCHANGED notStack

Stack_peek ==
  /\ last' = IF stack._size = 0
               THEN Call("Stack.peek", "NoSuchElementError")
             ELSE IF stack._top = null THEN Call("Stack.peek", "TypeError")
             ELSE Returns("Stack.peek", stack.node[stack._top.ref].item)
  /\ UNCHANGED <<stack, lifo>>
  /\ UNCHANGED notStack

Stack_size ==
  /\ last' = Returns("Stack.size", stack._size)
  /\ UNCHANGED <<stack, lifo>>
  /\ UNCHANGED notStack

\* for (const item of stack), run to its end.
Stack_iterate ==
  /\ last' = Returns("Stack.iterate", getIterator(stack.node, stack._top))
  /\ UNCHANGED <<stack, lifo>>
  /\ UNCHANGED notStack

NextStack ==
  \/ \E item \in ItemSet : Stack_push(item)
  \/ Stack_pop
  \/ Stack_peek
  \/ Stack_size
  \/ Stack_iterate

SpecStack == InitStack /\ [][NextStack]_vars

\* ---- UnionFind (union-find/index.ts) --------------------------------------
\* Elements are 0..n-1; _parent and _rank are arrays, index x at position
\* x + 1.
NewUnionFind(n) ==
  [_parent |-> [i \in 1..n |-> i - 1], _rank |-> [i \in 1..n |-> 0],
   _cnt |-> n]

\* How find and union end: the object as the call left it, the value returned
\* and the error thrown or "none".
Found(u, ret) == [uf |-> u, ret |-> ret, throws |-> "none"]
Thrown(u, error) == [uf |-> u, ret |-> undefined, throws |-> error]

\* The root the parent links lead to from element x.
RECURSIVE rootOf(_, _)
rootOf(u, x) ==
  IF u._parent[x + 1] = x THEN x ELSE rootOf(u, u._parent[x + 1])

RECURSIVE find(_, _)
find(u, x) ==
  IF ~x.isInteger THEN Thrown(u, "RangeError")
  ELSE IF x.n < 0 \/ x.n >= Len(u._parent) THEN Thrown(u, "RangeError")
  ELSE IF x.n # u._parent[x.n + 1]
    THEN LET r == find(u, Integer(u._parent[x.n + 1]))
         IN IF r.throws # "none" THEN r
            ELSE Found([r.uf EXCEPT !._parent[x.n + 1] = r.ret], r.ret)
  ELSE Found(u, u._parent[x.n + 1])

\* union with the two mutations this development uses: linking the argument
\* y instead of its root, and counting before the test for one set.
union_linksArgument(u, x, y) ==
  LET fx == find(u, x)
      fy == find(fx.uf, y)
      px == fx.ret
      py == fy.ret
      v == fy.uf
  IN IF fx.throws # "none" THEN fx
     ELSE IF fy.throws # "none" THEN fy
     ELSE IF px = py THEN Found(v, undefined)
     ELSE IF v._rank[px + 1] > v._rank[py + 1]
       THEN Found([v EXCEPT !._parent[y.n + 1] = px, !._cnt = @ - 1],
                  undefined)
     ELSE IF v._rank[px + 1] < v._rank[py + 1]
       THEN Found([v EXCEPT !._parent[px + 1] = py, !._cnt = @ - 1],
                  undefined)
     ELSE Found([v EXCEPT !._parent[y.n + 1] = px, !._rank[px + 1] = @ + 1,
                          !._cnt = @ - 1], undefined)

\* union that lowers _cnt before it looks up its arguments.
union_countsBeforeFind(u, x, y) ==
  LET c == [u EXCEPT !._cnt = @ - 1]
      fx == find(c, x)
      fy == find(fx.uf, y)
      px == fx.ret
      py == fy.ret
      v == fy.uf
  IN IF fx.throws # "none" THEN fx
     ELSE IF fy.throws # "none" THEN fy
     ELSE IF px = py THEN Found([v EXCEPT !._cnt = @ + 1], undefined)
     ELSE IF v._rank[px + 1] > v._rank[py + 1]
       THEN Found([v EXCEPT !._parent[py + 1] = px], undefined)
     ELSE IF v._rank[px + 1] < v._rank[py + 1]
       THEN Found([v EXCEPT !._parent[px + 1] = py], undefined)
     ELSE Found([v EXCEPT !._parent[py + 1] = px, !._rank[px + 1] = @ + 1],
                undefined)

union_countsAlways(u, x, y) ==
  LET fx == find(u, x)
      fy == find(fx.uf, y)
      px == fx.ret
      py == fy.ret
      v == fy.uf
  IN IF fx.throws # "none" THEN fx
     ELSE IF fy.throws # "none" THEN fy
     ELSE IF px = py THEN Found([v EXCEPT !._cnt = @ - 1], undefined)
     ELSE IF v._rank[px + 1] > v._rank[py + 1]
       THEN Found([v EXCEPT !._parent[py + 1] = px, !._cnt = @ - 1],
                  undefined)
     ELSE IF v._rank[px + 1] < v._rank[py + 1]
       THEN Found([v EXCEPT !._parent[px + 1] = py, !._cnt = @ - 1],
                  undefined)
     ELSE Found([v EXCEPT !._parent[py + 1] = px, !._rank[px + 1] = @ + 1,
                          !._cnt = @ - 1], undefined)

union(u, x, y) ==
  LET fx == find(u, x)
      fy == find(fx.uf, y)
      px == fx.ret
      py == fy.ret
      v == fy.uf
  IN IF fx.throws # "none" THEN fx
     ELSE IF fy.throws # "none" THEN fy
     ELSE IF px = py THEN Found(v, undefined)
     ELSE IF v._rank[px + 1] > v._rank[py + 1]
       THEN Found([v EXCEPT !._parent[py + 1] = px, !._cnt = @ - 1],
                  undefined)
     ELSE IF v._rank[px + 1] < v._rank[py + 1]
       THEN Found([v EXCEPT !._parent[px + 1] = py, !._cnt = @ - 1],
                  undefined)
     ELSE Found([v EXCEPT !._parent[py + 1] = px, !._rank[px + 1] = @ + 1,
                          !._cnt = @ - 1], undefined)

Elements == 0..(UFSize - 1)
UFArgs == {Integer(n) : n \in -1..UFSize} \cup {NotInteger}

\* joined holds the pairs of different elements that a chain of union calls
\* made so far connects.
setOf(x) == {x} \cup {a \in Elements : <<a, x>> \in joined}
sameSet(x, y) == x = y \/ <<x, y>> \in joined

InitUF ==
  /\ uf = NewUnionFind(UFSize)
  /\ joined = {}
  /\ last = Call("new UnionFind", "void")
  /\ NoTree /\ NoHeap /\ NoPQ /\ NoQueue /\ NoStack

notUF ==
  <<treeVars, twinVars, heapVars, pqVars, queueVars, stackVars>>

UF_find_movesRoot(x) ==
  /\ LET r == find(uf, x)
     IN /\ uf' = IF r.throws # "none" THEN r.uf
                 ELSE [r.uf EXCEPT !._parent[r.ret + 1] = x.n,
                                   !._parent[x.n + 1] = x.n]
        /\ last' = IF r.throws # "none" THEN Call("UF.find", r.throws)
                   ELSE Returns("UF.find", x.n)
  /\ UNCHANGED joined
  /\ UNCHANGED notUF

UF_find(x) ==
  /\ LET r == find(uf, x)
     IN /\ uf' = r.uf
        /\ last' = IF r.throws # "none" THEN Call("UF.find", r.throws)
                   ELSE Returns("UF.find", r.ret)
  /\ UNCHANGED joined
  /\ UNCHANGED notUF

UF_union(x, y) ==
  /\ LET r == union(uf, x, y)
     IN /\ uf' = r.uf
        /\ last' = Call("UF.union", IF r.throws # "none" THEN r.throws
                                    ELSE "void")
        /\ joined' = IF r.throws # "none" THEN joined
                     ELSE joined \cup
                            {p \in (setOf(x.n) \cup setOf(y.n))
                                     \X (setOf(x.n) \cup setOf(y.n)) :
                               p[1] # p[2]}
  /\ UNCHANGED notUF

UF_count ==
  /\ last' = Returns("UF.count", uf._cnt)
  /\ UNCHANGED <<uf, joined>>
  /\ UNCHANGED notUF

NextUF ==
  \/ \E x \in UFArgs : UF_find(x)
  \/ \E x \in UFArgs, y \in UFArgs : UF_union(x, y)
  \/ UF_count

SpecUF == InitUF /\ [][NextUF]_vars

\* ---- observations of a tree used by the properties -----------------------
RECURSIVE keysOf(_)
keysOf(root) ==
  IF root = null THEN {}
  ELSE keysOf(root.left) \cup {root.key} \cup keysOf(root.right)

RECURSIVE countNodes(_)
countNodes(root) ==
  IF root = null THEN 0
  ELSE countNodes(root.left) + 1 + countNodes(root.right)

least(S) == CHOOSE k \in S : \A j \in S : compareFn(k, j) <= 0

greatest(S) == CHOOSE k \in S : \A j \in S : compareFn(k, j) >= 0

RECURSIVE isBST(_)
isBST(root) ==
  IF root = null THEN TRUE
  ELSE /\ \A k \in keysOf(root.left) : compareFn(k, root.key) < 0
       /\ \A k \in keysOf(root.right) : compareFn(k, root.key) > 0
       /\ isBST(root.left)
       /\ isBST(root.right)

RECURSIVE is23(_)
is23(root) ==
  IF root = null THEN TRUE
  ELSE /\ ~isRed(root.right)
       /\ ~(isRed(root) /\ isRed(root.left))
       /\ is23(root.left)
       /\ is23(root.right)

\* Numbers of BLACK nodes met on the paths from root to each absent child.
RECURSIVE blackCounts(_)
blackCounts(root) ==
  IF root = null THEN {0}
  ELSE {n + (IF isRed(root) THEN 0 ELSE 1) :
          n \in blackCounts(root.left) \cup blackCounts(root.right)}

RECURSIVE hasRedNode(_)
hasRedNode(root) ==
  IF root = null THEN FALSE
  ELSE isRed(root) \/ hasRedNode(root.left) \/ hasRedNode(root.right)

\* Number of nodes on the longest path from root down to a leaf.
RECURSIVE height(_)
height(root) ==
  IF root = null THEN 0
  ELSE LET l == height(root.left)
           r == height(root.right)
       IN 1 + (IF l > r THEN l ELSE r)

\* ---- C1 -----------------------------------------------------------------
\* C1: after any sequence of set, delete, deleteMin, deleteMax and clear, for
\* every key k, has(k) is true exactly when k was set and not removed since,
\* and get(k) is the value of the most recent set(k, v) when k is present and
\* undefined when it is not.
C1_MapSemantics ==
  \A k \in KeySet :
    /\ has(_root, k) = (kv[k] # undefined)
    /\ get(_root, k) = kv[k]

\* A key has just been removed; keys with different values remain.
C1_Witness ==
  /\ last = Call("delete", "true")
  /\ countNodes(_root) >= 3
  /\ \E j, k \in KeySet :
       /\ get(_root, j) # undefined
       /\ get(_root, k) # undefined
       /\ get(_root, j) # get(_root, k)
  /\ \E k \in KeySet : ~has(_root, k)

\* ---- C2 -----------------------------------------------------------------
\* C2: size() equals the number of distinct keys currently in the container
\* (so that setting a new key increases it by exactly 1 and deleting a present
\* key decreases it by exactly 1).
C2_SizeCountsKeys ==
  size(_root) = Cardinality(keysOf(_root))

\* ---- C3 -----------------------------------------------------------------
\* C3: after every public mutating call the tree is a binary search tree:
\* every key in a node's left subtree compares less than the node's key and
\* every key in its right subtree compares greater, so no key occurs twice.
C3_SearchTreeOrder ==
  /\ isBST(_root)
  /\ Cardinality(keysOf(_root)) = countNodes(_root)

C3_Witness ==
  /\ last = Call("delete", "true")
  /\ countNodes(_root) >= 3
  /\ _root.left # null
  /\ _root.right # null

\* ---- C4 -----------------------------------------------------------------
\* C4: after every public mutating call no node has a RED right child and no
\* RED node has a RED left child.
C4_LeftLeaning ==
  is23(_root)

C4_Witness ==
  /\ last.op \in {"delete", "deleteMin", "deleteMax"}
  /\ last.ret \in {"true", "void"}
  /\ _root # null
  /\ isRed(_root.left)

\* ---- C5 -----------------------------------------------------------------
\* C5: after every public mutating call every path from the root to an absent
\* child passes through the same number of BLACK nodes.
C5_BlackBalanced ==
  Cardinality(blackCounts(_root)) = 1

C5_Witness ==
  /\ last = Call("delete", "true")
  /\ countNodes(_root) >= 3
  /\ blackCounts(_root) = {2}

\* ---- C6 -----------------------------------------------------------------
\* C6: no ok(...) assertion of deleteMin, deleteMax, remove, rotateLeft,
\* rotateRight, flipColors, moveRedLeft or moveRedRight fails in any sequence
\* of public calls.
C6_NoAssertionFails ==
  last.ret # "AssertionError"

\* deleteMin returned normally from a tree of four nodes, where it met
\* moveRedLeft or a red link on the left spine.
C6_Witness ==
  /\ last = Call("deleteMin", "void")
  /\ countNodes(_root) >= 3

\* ---- C7 -----------------------------------------------------------------
\* C7: delete(k) on a present key returns true, afterwards has(k) is false and
\* every other key that was present is still present with the same value.
C7_DeletePresent ==
  [][\A k \in KeySet :
       (last'.op = "delete" /\ has(_root, k) /\ SortedMap_delete(k)) =>
         /\ last'.ret = "true"
         /\ ~has(_root', k)
         /\ \A j \in keysOf(_root) \ {k} :
              has(_root', j) /\ get(_root', j) = get(_root, j)]_vars

\* A key between the smallest and the largest one has been deleted.
C7_Witness ==
  /\ last = Call("delete", "true")
  /\ countNodes(_root) >= 3
  /\ \E k \in KeySet : compareFn(least(keysOf(_root)), k) < 0 /\
                       compareFn(k, greatest(keysOf(_root))) < 0 /\
                       ~has(_root, k)

\* ---- C8 -----------------------------------------------------------------
\* C8: delete(k) for a key that is not present returns false and changes
\* nothing: keys, values, tree shape, colors and size counters are the same.
C8_DeleteAbsent ==
  [][\A k \in KeySet :
       (last'.op = "delete" /\ ~has(_root, k) /\ SortedMap_delete(k)) =>
         /\ last'.ret = "false"
         /\ _root' = _root]_vars

C8_Witness ==
  /\ last = Call("delete", "false")
  /\ countNodes(_root) >= 3
  /\ ~isRed(_root.left)

\* ---- C9 -----------------------------------------------------------------
\* C9: on a non-empty container deleteMin() removes exactly the entry with the
\* smallest key: has(oldMin) is false afterwards, the new min() is the
\* second-smallest prior key, every other key is still present with its value.
C9_DeleteMin ==
  [][(last'.op = "deleteMin" /\ _root # null /\ SortedMap_deleteMin) =>
       LET oldMin == least(keysOf(_root))
           rest == keysOf(_root) \ {oldMin}
       IN /\ ~has(_root', oldMin)
          /\ keysOf(_root') = rest
          /\ (rest # {}) => (_root' # null /\ min(_root').key = least(rest))
          /\ \A j \in rest :
               has(_root', j) /\ get(_root', j) = get(_root, j)]_vars

C9_Witness ==
  /\ last = Call("deleteMin", "void")
  /\ countNodes(_root) >= 3
  /\ min(_root).key # least(KeySet)
  /\ min(_root).key = least(keysOf(_root))

\* ---- C10 ----------------------------------------------------------------
\* C10: on a non-empty container deleteMax() removes exactly the entry with
\* the largest key: has(oldMax) is false afterwards, the new max() is the
\* second-largest prior key, every other key is still present with its value.
C10_DeleteMax ==
  [][(last'.op = "deleteMax" /\ _root # null /\ SortedMap_deleteMax) =>
       LET oldMax == greatest(keysOf(_root))
           rest == keysOf(_root) \ {oldMax}
       IN /\ ~has(_root', oldMax)
          /\ keysOf(_root') = rest
          /\ (rest # {}) => (_root' # null /\ max(_root').key = greatest(rest))
          /\ \A j \in rest :
               has(_root', j) /\ get(_root', j) = get(_root, j)]_vars

C10_Witness ==
  /\ last = Call("deleteMax", "void")
  /\ countNodes(_root) >= 3
  /\ max(_root).key # greatest(KeySet)
  /\ max(_root).key = greatest(keysOf(_root))

\* ---- C11 ----------------------------------------------------------------
\* C11: on a non-empty container min() returns the smallest and max() the
\* largest key currently present, so min() <= every present key <= max().
C11_MinMax ==
  present # {} =>
    /\ last.op = "min" =>
         /\ last.ret = "value"
         /\ last.val \in present
         /\ \A k \in present : compareFn(last.val, k) <= 0
    /\ last.op = "max" =>
         /\ last.ret = "value"
         /\ last.val \in present
         /\ \A k \in present : compareFn(k, last.val) <= 0

\* min() has answered on a tree of three or more keys whose smallest key is
\* neither the root's nor the least key there is.
C11_Witness ==
  /\ last.op = "min"
  /\ last.ret = "value"
  /\ countNodes(_root) >= 3
  /\ last.val # _root.key
  /\ last.val # least(KeySet)

\* ---- C12 ----------------------------------------------------------------
\* C12: on a non-empty container floor(k) returns the largest key currently
\* present that is <= k (k itself when k is present); when every present key
\* is greater than k it throws NoSuchElementError; either way the container
\* is left unchanged.
C12_Floor ==
  [][\A k \in KeySet :
       (last'.op = "floor" /\ present # {} /\ SortedMap_floor(k)) =>
         LET below == {j \in present : compareFn(j, k) <= 0}
         IN /\ _root' = _root
            /\ kv' = kv
            /\ IF below = {} THEN last'.ret = "NoSuchElementError"
               ELSE last'.ret = "value" /\ last'.val = greatest(below)]_vars

\* floor has answered with a key of the root's right subtree, on a tree of
\* three or more keys.
C12_Witness ==
  /\ last.op = "floor"
  /\ last.ret = "value"
  /\ countNodes(_root) >= 3
  /\ compareFn(last.val, _root.key) > 0

\* floor has thrown on a non-empty container.
C12_WitnessThrows ==
  /\ last = Call("floor", "NoSuchElementError")
  /\ countNodes(_root) >= 2

\* ---- C13 ----------------------------------------------------------------
\* C13: on a non-empty container ceiling(k) returns the smallest key currently
\* present that is >= k (k itself when k is present); when every present key
\* is less than k it throws NoSuchElementError; either way the container is
\* left unchanged.
C13_Ceiling ==
  [][\A k \in KeySet :
       (last'.op = "ceiling" /\ present # {} /\ SortedMap_ceiling(k)) =>
         LET above == {j \in present : compareFn(j, k) >= 0}
         IN /\ _root' = _root
            /\ kv' = kv
            /\ IF above = {} THEN last'.ret = "NoSuchElementError"
               ELSE last'.ret = "value" /\ last'.val = least(above)]_vars

\* ceiling has answered with a key of the root's left subtree, on a tree of
\* three or more keys.
C13_Witness ==
  /\ last.op = "ceiling"
  /\ last.ret = "value"
  /\ countNodes(_root) >= 3
  /\ compareFn(last.val, _root.key) < 0

\* ceiling has thrown on a non-empty container.
C13_WitnessThrows ==
  /\ last = Call("ceiling", "NoSuchElementError")
  /\ countNodes(_root) >= 2

\* ---- C14 ----------------------------------------------------------------
\* C14: set(k, v2) made after a set that left k present leaves size() and
\* the set of present keys as they were, and get(k) then returns v2.
C14_SetTwice ==
  [][\A k \in KeySet, v \in ValSet :
       (/\ last'.op = "set"
        /\ last = Call("set", "this")
        /\ has(_root, k)
        /\ SortedMap_set(k, v)) =>
         /\ last'.ret = "this"
         /\ size(_root') = size(_root)
         /\ keysOf(_root') = keysOf(_root)
         /\ present' = present
         /\ get(_root', k) = v]_vars

\* set has returned on a tree of three or more keys in which a key other than
\* the root's holds a value that the root's key does not.
C14_Witness ==
  /\ last = Call("set", "this")
  /\ countNodes(_root) >= 3
  /\ \E k \in keysOf(_root) \ {_root.key} : get(_root, k) # _root.value

\* ---- C15 ----------------------------------------------------------------
\* C15: whenever the container is empty, min(), max(), deleteMin(),
\* deleteMax(), floor(x) and ceiling(x) each throw NoSuchElementError and
\* leave the container empty.
C15_EmptyThrows ==
  [][(/\ last'.op \in {"min", "max", "deleteMin", "deleteMax", "floor",
                       "ceiling"}
      /\ present = {}) =>
        /\ last'.ret = "NoSuchElementError"
        /\ _root' = null
        /\ present' = {}]_vars

\* max() has thrown on an empty container.
C15_Witness ==
  /\ last = Call("max", "NoSuchElementError")
  /\ _root = null
  /\ present = {}

\* ---- C16 ----------------------------------------------------------------
\* C16: after every public call the container is either Empty (root absent,
\* isEmpty() true, size() 0) or NonEmpty (root present and BLACK); isEmpty()
\* is true exactly when no key is present, so removing the last key returns
\* to Empty, and clear() yields Empty.
C16_EmptyOrNonEmpty ==
  /\ (_root = null) = (present = {})
  /\ _root = null => size(_root) = 0
  /\ _root # null => _root.color = BLACK
  /\ last.op = "isEmpty" => (last.ret = "true") = (present = {})
  /\ (last.op = "size" /\ present = {}) => last.val = 0
  /\ last.op = "clear" => _root = null

\* deleteMax has removed the last key.
C16_Witness ==
  /\ last = Call("deleteMax", "void")
  /\ _root = null

\* ---- C17 ----------------------------------------------------------------
\* C17: iterating a SortedMap or a SortedSet yields every entry currently
\* present exactly once, in strictly ascending key order per the comparator,
\* each map entry paired with its current value.
C17_Iteration ==
  /\ last.op = "iterate" =>
       LET entries == last.val
           n == Len(entries)
       IN /\ \A i \in 1..(n - 1) :
               compareFn(entries[i][1], entries[i + 1][1]) < 0
          /\ {entries[i][1] : i \in 1..n} = present
          /\ \A i \in 1..n : entries[i][2] = kv[entries[i][1]]
  /\ last.op = "SortedSet.iterate" =>
       LET values == last.val
           n == Len(values)
       IN /\ \A i \in 1..(n - 1) : compareFn(values[i], values[i + 1]) < 0
          /\ {values[i] : i \in 1..n} = present

\* A map of three or more keys, not all with the same value and the least key
\* of all not among them, has been iterated over.
C17_Witness ==
  /\ last.op = "iterate"
  /\ Len(last.val) >= 3
  /\ last.val[1][1] # least(KeySet)
  /\ \E i, j \in 1..Len(last.val) : last.val[i][2] # last.val[j][2]

\* A set of three or more values whose root has two children has been
\* iterated over.
C17_WitnessSet ==
  /\ last.op = "SortedSet.iterate"
  /\ Len(last.val) >= 3
  /\ _root.left # null
  /\ _root.right # null

\* ---- C18 ----------------------------------------------------------------
\* C18: an iterator yields the entries the container held when the iterator
\* was obtained: calls of set, delete, deleteMin, deleteMax or clear made
\* after that, before its first element is consumed or between elements, do
\* not change the sequence it yields.
C18_SnapshotAtCall ==
  [][last'.op = "next" =>
       IF it.expect = << >> THEN last'.ret = "done"
       ELSE last'.ret = "value" /\ last'.val = Head(it.expect)]_vars

\* ---- C19 ----------------------------------------------------------------
\* C19: after every public call the height of the tree (number of nodes on
\* the longest path from the root to a leaf) is at most 2*log2(n+1), where n
\* is the number of keys present; in integers, 2^height <= (n+1)^2.
C19_Height ==
  LET n == Cardinality(present)
  IN 2 ^ height(_root) <= (n + 1) * (n + 1)

\* Six keys are held in a tree of height 4, the tallest a left-leaning
\* red-black tree of six keys gets; without rebalancing six keys make a tree
\* of height 6, and 2^6 > 7^2.
C19_Witness ==
  /\ last = Call("set", "this")
  /\ Cardinality(present) = 6
  /\ height(_root) = 4

\* ---- C20 ----------------------------------------------------------------
\* C20: size, isEmpty, has, get, min, max, floor, ceiling and iteration never
\* modify the tree: keys, values, child links, colors and size counters of
\* every node are the same before and after the call, whether it returns a
\* result or throws.
C20_ReadsChangeNothing ==
  [][last'.op \in Reads => _root' = _root /\ kv' = kv]_vars

\* floor has thrown on a tree of three or more keys.
C20_Witness ==
  /\ last = Call("floor", "NoSuchElementError")
  /\ countNodes(_root) >= 3


\* ---- C21 ------------------------------------------------------------------
\* C21: a remove() that returns hands back an item that is among the items
\* added and not yet removed and that can be parent (>= for MaxHeap, <= for
\* MinHeap) of every such item, and a peek() that returns hands back an item
\* that is among the items added and not yet removed.
C21_RemoveReturnsExtreme ==
  [][/\ Heap_remove /\ last'.ret = "value"
        => /\ added[last'.val] > 0
           /\ \A item \in ItemSet :
                added[item] > 0
                  => canBeParentFn(heap._canBeParentFn, last'.val, item)
     /\ Heap_peek /\ last'.ret = "value" => added[last'.val] > 0]_vars


\* ---- C22 ------------------------------------------------------------------
\* C22: among the first size() items of the backing array, the item at index
\* i can be parent of the items at indices 2i+1 and 2i+2 that are below
\* size().
C22_HeapOrder ==
  heap # null
    => \A i \in 0..(heap._size - 1) :
         \A c \in {2 * i + 1, 2 * i + 2} :
           c < heap._size
             => canBeParentFn(heap._canBeParentFn, heap._items[i + 1],
                              heap._items[c + 1])


\* ---- C23 ------------------------------------------------------------------
\* The items in the queue by the calls made: those with a priority in given.
inQueue == {item \in Labels : given[item] # empty}

\* C23: while the queue holds an item, dequeue() and peek() do not throw and
\* return an item of the queue whose priority can be parent (>= for
\* IndexedMaxPQ, <= for IndexedMinPQ) of the priority of every item of the
\* queue.
C23_ReturnsExtreme ==
  [][(PQ_dequeue \/ PQ_peek) /\ inQueue # {}
       => /\ last'.ret = "value"
          /\ last'.val \in inQueue
          /\ \A item \in inQueue :
               IF pq.class = "IndexedMaxPQ"
                 THEN comparePriority(given[last'.val], given[item]) >= 0
               ELSE comparePriority(given[last'.val], given[item]) <= 0]_vars


\* ---- C24 ------------------------------------------------------------------
\* C24: has(i) is true exactly for the items of the queue by the calls made,
\* getPriority of each of them is the priority last given to it, and size()
\* is the number of items for which has is true.
C24_HasFollowsCalls ==
  pq # null
    => /\ \A item \in Labels :
            /\ IndexedPQ_has(pq, Integer(item)).value = (item \in inQueue)
            /\ item \in inQueue
                 => IndexedPQ_getPriority(pq, Integer(item))
                      = Normal(given[item])
       /\ pq._size
            = Cardinality({item \in Labels :
                             IndexedPQ_has(pq, Integer(item)).value})


\* ---- C25 ------------------------------------------------------------------
PQErrors == {"RangeError", "IlligalArgumentError", "NoSuchElementError"}

\* item is a label of the queue and the calls made have put it in the queue.
isInQueue(item) == _validateItem(pq, item) = "none" /\ item.n \in inQueue

\* C25: a call that throws leaves the object as it was; has, enqueue,
\* getPriority, change and delete of a label that is not an integer of
\* 0..n-1 throw RangeError; enqueue of an item of the queue throws
\* IlligalArgumentError; getPriority, change and delete of a label that is not
\* in the queue, and dequeue and peek on a queue without items, throw
\* NoSuchElementError.
C25_FailingCalls ==
  [][/\ last'.ret \in PQErrors => pq' = pq
     /\ \A item \in PQArgs, priority \in PrioritySet :
          /\ _validateItem(pq, item) # "none"
               => /\ PQ_has(item) => last'.ret = "RangeError"
                  /\ PQ_getPriority(item) => last'.ret = "RangeError"
                  /\ PQ_enqueue(item, priority) => last'.ret = "RangeError"
                  /\ PQ_change(item, priority) => last'.ret = "RangeError"
                  /\ PQ_delete(item) => last'.ret = "RangeError"
          /\ isInQueue(item) /\ PQ_enqueue(item, priority)
               => last'.ret = "IlligalArgumentError"
          /\ _validateItem(pq, item) = "none" /\ ~isInQueue(item)
               => /\ PQ_getPriority(item)
                       => last'.ret = "NoSuchElementError"
                  /\ PQ_change(item, priority)
                       => last'.ret = "NoSuchElementError"
                  /\ PQ_delete(item) => last'.ret = "NoSuchElementError"
     /\ inQueue = {} /\ (PQ_dequeue \/ PQ_peek)
          => last'.ret = "NoSuchElementError"]_vars


\* ---- C26 ------------------------------------------------------------------
\* C26: with fifo the items enqueued and not yet dequeued, oldest first: on a
\* queue with items peek() and dequeue() return the first of fifo and dequeue
\* leaves the rest in order; on a queue without items they throw
\* NoSuchElementError and leave it without items; enqueue puts its item after
\* the others; iteration yields fifo and size() returns its length.
C26_FIFO ==
  [][/\ Queue_dequeue
          => /\ last' = IF fifo = << >>
                          THEN Call("Queue.dequeue", "NoSuchElementError")
                        ELSE Returns("Queue.dequeue", Head(fifo))
             /\ getIterator(queue'.node, queue'._front) = fifo'
             /\ queue'._size = Len(fifo')
     /\ Queue_peek
          => last' = IF fifo = << >>
                       THEN Call("Queue.peek", "NoSuchElementError")
                     ELSE Returns("Queue.peek", Head(fifo))
     /\ \A item \in ItemSet :
          Queue_enqueue(item)
            => /\ getIterator(queue'.node, queue'._front) = Append(fifo, item)
               /\ queue'._size = Len(fifo) + 1
     /\ Queue_iterate => last'.val = fifo
     /\ Queue_size => last'.val = Len(fifo)]_vars

\* dequeue() has returned an item and two items remain, which iteration
\* yields in the order of their enqueue calls.
C26_Witness ==
  /\ queue # null
  /\ last.op = "Queue.dequeue" /\ last.ret = "value"
  /\ Len(fifo) = 2
  /\ getIterator(queue.node, queue._front) = fifo


\* ---- C27 ------------------------------------------------------------------
\* C27: with lifo the items pushed and not yet popped, newest first: on a
\* stack with items peek() and pop() return the first of lifo and pop leaves
\* the rest in order; on a stack without items they throw NoSuchElementError
\* and leave it without items; push puts its item before the others; iteration
\* yields lifo and size() returns its length.
C27_LIFO ==
  [][/\ Stack_pop
          => /\ last' = IF lifo = << >>
                          THEN Call("Stack.pop", "NoSuchElementError")
                        ELSE Returns("Stack.pop", Head(lifo))
             /\ getIterator(stack'.node, stack'._top) = lifo'
             /\ stack'._size = Len(lifo')
     /\ Stack_peek
          => last' = IF lifo = << >>
                       THEN Call("Stack.peek", "NoSuchElementError")
                     ELSE Returns("Stack.peek", Head(lifo))
     /\ \A item \in ItemSet :
          Stack_push(item)
            => /\ getIterator(stack'.node, stack'._top) = <<item>> \o lifo
               /\ stack'._size = Len(lifo) + 1
     /\ Stack_iterate => last'.val = lifo
     /\ Stack_size => last'.val = Len(lifo)]_vars

\* pop() has returned an item and two items remain, which iteration yields
\* from the most to the least recently pushed.
C27_Witness ==
  /\ stack # null
  /\ last.op = "Stack.pop" /\ last.ret = "value"
  /\ Len(lifo) = 2
  /\ getIterator(stack.node, stack._top) = lifo


\* ---- C28 ------------------------------------------------------------------
\* C28: find(x) followed by find(y) return the same element exactly when x and
\* y are the same element or a chain of union calls made so far connects them.
C28_FindSameSet ==
  uf # null
    => \A x \in Elements, y \in Elements :
         LET fx == find(uf, Integer(x))
             fy == find(fx.uf, Integer(y))
         IN (fx.ret = fy.ret) <=> sameSet(x, y)

\* Three elements are in one set after two union calls, the last of which has
\* joined a set of two elements with another set.
C28_Witness ==
  /\ uf # null
  /\ last = Call("UF.union", "void")
  /\ \E x \in Elements : Cardinality(setOf(x)) = 3
  /\ \E x \in Elements, y \in Elements :
       /\ sameSet(x, y) /\ x # y
       /\ uf._parent[x + 1] # y /\ uf._parent[y + 1] # x
       /\ find(uf, Integer(x)).ret = find(uf, Integer(y)).ret


\* ---- C29 ------------------------------------------------------------------
\* The number of disjoint sets the union calls made so far leave.
numberOfSets == Cardinality({setOf(x) : x \in Elements})

\* C29: count() is n after construction; from then on it is the number of
\* disjoint sets and lies in 1..n; a union of elements of different sets
\* (one that connects a pair not connected before) lowers it by exactly 1; a
\* union of elements of one set, a find and a call that throws leave it as it
\* was.
C29_CountIsNumberOfSets ==
  /\ uf._cnt = UFSize
  /\ [][/\ uf'._cnt = numberOfSets'
        /\ uf'._cnt >= 1 /\ uf'._cnt <= UFSize
        /\ last' = Call("UF.union", "void")
             => uf'._cnt = IF joined' = joined THEN uf._cnt ELSE uf._cnt - 1
        /\ last'.op = "UF.find" => uf'._cnt = uf._cnt
        /\ last'.ret = "RangeError" => uf'._cnt = uf._cnt]_vars

\* A union has returned and two sets are left, which is what count() returns.
C29_Witness ==
  /\ uf # null
  /\ last = Call("UF.union", "void")
  /\ uf._cnt = 2
  /\ numberOfSets = 2

\* ---- C30 ------------------------------------------------------------------
\* The element find(z) returns.
canonical(u, z) == find(u, Integer(z)).ret

\* C30: find (path compression included), count, a call that throws and a
\* union of two elements of one set leave find(z) as it was for every element
\* z; a union of elements of different sets leaves find(z) as it was for every
\* z whose set the union leaves as it was.
C30_CanonicalKept ==
  [][/\ last'.op \in {"UF.find", "UF.count"} \/ last'.ret = "RangeError"
        => \A z \in Elements : canonical(uf', z) = canonical(uf, z)
     /\ last' = Call("UF.union", "void")
          => \A z \in Elements :
               setOf(z)' = setOf(z) => canonical(uf', z) = canonical(uf, z)]_vars

\* find has returned the root of a tree of rank 2 in which every element is
\* now a child of the root, a shape that only path compression produces.
C30_Witness ==
  /\ uf # null
  /\ last.op = "UF.find" /\ last.ret = "value"
  /\ \E x \in Elements :
       /\ uf._parent[x + 1] = last.val
       /\ x # last.val
       /\ uf._rank[last.val + 1] = 2
       /\ \A y \in Elements : uf._parent[y + 1] = last.val


\* ---- C31 ------------------------------------------------------------------
\* x is not an integer of 0..n-1.
outOfRange(x) == ~x.isInteger \/ x.n < 0 \/ x.n >= Len(uf._parent)

\* C31: find(x) with x not an integer of 0..n-1, and union(x, y) with x or y
\* not an integer of 0..n-1, throw RangeError; a call that throws RangeError
\* leaves the pairs connected, find(z) of every element z and count() as they
\* were.
C31_RangeErrorKeepsSets ==
  [][/\ last'.op = "UF.find"
          => \A x \in UFArgs :
               outOfRange(x) /\ UF_find(x) => last'.ret = "RangeError"
     /\ last'.op = "UF.union"
          => \A x \in UFArgs, y \in UFArgs :
               (outOfRange(x) \/ outOfRange(y)) /\ UF_union(x, y)
                 => last'.ret = "RangeError"
     /\ last'.ret = "RangeError"
          => /\ joined' = joined
             /\ uf'._cnt = uf._cnt
             /\ \A z \in Elements : canonical(uf', z) = canonical(uf, z)]_vars

\* union has thrown RangeError on a structure whose elements are all in one
\* set, in a tree of rank 2 with every element a child of the root.
C31_Witness ==
  /\ uf # null
  /\ last = Call("UF.union", "RangeError")
  /\ uf._cnt = 1
  /\ \E r \in Elements :
       /\ uf._rank[r + 1] = 2
       /\ \A z \in Elements : uf._parent[z + 1] = r


\* ---- C32 ------------------------------------------------------------------
RECURSIVE sizesCurrent(_)
sizesCurrent(root) ==
  IF root = null THEN TRUE
  ELSE /\ root.size = 1 + size(root.left) + size(root.right)
       /\ sizesCurrent(root.left)
       /\ sizesCurrent(root.right)

\* C32: after every public mutating call the size counter of every node is
\* 1 + size(left) + size(right), with the size of an absent node 0.
C32_NodeSizes == Running => sizesCurrent(_root)


\* ---- C33 ------------------------------------------------------------------
\* The calls of moveRedLeft and moveRedRight that deleteMin(root),
\* deleteMax(root) and remove(root, key) make, in order: fn is the function
\* called and h what it returned.
RECURSIVE movedBy_deleteMin(_)
movedBy_deleteMin(root) ==
  IF ~(isRed(root) \/ isRed(root.left)) THEN << >>
  ELSE IF root.left = null THEN << >>
  ELSE LET moves == ~isRed(root.left) /\ ~isRed(root.left.left)
           r1 == IF moves THEN moveRedLeft(root) ELSE root
       IN (IF moves THEN <<[fn |-> "moveRedLeft", h |-> r1]>> ELSE << >>)
          \o (IF r1 = AssertionError THEN << >>
              ELSE movedBy_deleteMin(r1.left))

RECURSIVE movedBy_deleteMax(_)
movedBy_deleteMax(root) ==
  IF ~(isRed(root) \/ isRed(root.right) \/ isRed(root.left)) THEN << >>
  ELSE LET r0 == IF isRed(root.left) THEN rotateRight(root) ELSE root
       IN IF r0 = AssertionError THEN << >>
          ELSE IF r0.right = null THEN << >>
          ELSE LET moves == ~isRed(r0.right) /\ ~isRed(r0.right.left)
                   r1 == IF moves THEN moveRedRight(r0) ELSE r0
               IN (IF moves THEN <<[fn |-> "moveRedRight", h |-> r1]>>
                   ELSE << >>)
                  \o (IF r1 = AssertionError THEN << >>
                      ELSE movedBy_deleteMax(r1.right))

RECURSIVE movedBy_remove(_, _)
movedBy_remove(root, key) ==
  IF compareFn(key, root.key) < 0
    THEN IF root.left = null THEN << >>
         ELSE LET moves == ~isRed(root.left) /\ ~isRed(root.left.left)
                  r1 == IF moves THEN moveRedLeft(root) ELSE root
              IN (IF moves THEN <<[fn |-> "moveRedLeft", h |-> r1]>>
                  ELSE << >>)
                 \o (IF r1 = AssertionError THEN << >>
                     ELSE movedBy_remove(r1.left, key))
  ELSE LET r0 == IF isRed(root.left) THEN rotateRight(root) ELSE root
       IN IF r0 = AssertionError THEN << >>
          ELSE IF r0.right = null THEN << >>
          ELSE LET moves == ~isRed(r0.right) /\ ~isRed(r0.right.left)
                   r1 == IF moves THEN moveRedRight(r0) ELSE r0
               IN (IF moves THEN <<[fn |-> "moveRedRight", h |-> r1]>>
                   ELSE << >>)
                  \o (IF r1 = AssertionError THEN << >>
                      ELSE IF compareFn(key, r1.key) = 0
                        THEN movedBy_deleteMin(r1.right)
                      ELSE movedBy_remove(r1.right, key))

\* What the recursion that follows a call needs of the node returned.
movedRed(call) ==
  /\ call.h # AssertionError
  /\ IF call.fn = "moveRedLeft"
       THEN /\ call.h.left # null
            /\ isRed(call.h.left) \/ isRed(call.h.left.left)
     ELSE /\ call.h.right # null
          /\ isRed(call.h.right) \/ isRed(call.h.right.right)

allMovedRed(calls) == \A i \in DOMAIN calls : movedRed(calls[i])

\* C33: in every state the public calls reach, each moveRedLeft that
\* deleteMin() or delete(key) of a present key calls returns h with h.left RED
\* or h.left.left RED, and each moveRedRight that deleteMax() or delete(key)
\* calls returns h with h.right RED or h.right.right RED.
C33_MoveRedMakesRed ==
  Running /\ _root # null
    => /\ allMovedRed(movedBy_deleteMin(redden(_root)))
       /\ allMovedRed(movedBy_deleteMax(redden(_root)))
       /\ \A key \in AllKeys :
            has(_root, key) => allMovedRed(movedBy_remove(redden(_root), key))

\* A call c whose function took its rotating branch: the child is black and
\* the grandchild is RED.
rotated(c) ==
  /\ c.h # AssertionError
  /\ IF c.fn = "moveRedLeft"
       THEN c.h.left # null /\ ~isRed(c.h.left) /\ isRed(c.h.left.left)
     ELSE c.h.right # null /\ ~isRed(c.h.right) /\ isRed(c.h.right.right)

\* A state where deleteMin() calls a moveRedLeft that rotates, deleteMax()
\* calls moveRedRight, and delete of some present key calls moveRedRight.
C33_Witness ==
  /\ Running /\ _root # null
  /\ \E i \in DOMAIN movedBy_deleteMin(redden(_root)) :
       rotated(movedBy_deleteMin(redden(_root))[i])
  /\ Len(movedBy_deleteMax(redden(_root))) >= 1
  /\ \E key \in AllKeys :
       /\ has(_root, key)
       /\ \E i \in DOMAIN movedBy_remove(redden(_root), key) :
            movedBy_remove(redden(_root), key)[i].fn = "moveRedRight"


\* ---- C34 ------------------------------------------------------------------
\* Among the first n items of array, the items from index idx down are in heap
\* order.
RECURSIVE subtreeOrdered(_, _, _, _)
subtreeOrdered(array, class, idx, n) ==
  \A c \in {2 * idx + 1, 2 * idx + 2} :
    c < n => /\ canBeParentFn(class, array[idx + 1], array[c + 1])
             /\ subtreeOrdered(array, class, c, n)

\* Index i lies in the subtree rooted at index idx.
RECURSIVE inSubtree(_, _)
inSubtree(i, idx) ==
  IF i = idx THEN TRUE
  ELSE IF i <= idx THEN FALSE
  ELSE inSubtree((i - 1) \div 2, idx)

\* How often item occurs among the first n items of array.
occurrences(array, n, item) == Cardinality({i \in 1..n : array[i] = item})

\* C34: when heapifyDown(heap, canBeParent, idx, n) is called with idx < n
\* and with the subtrees of both children of idx in heap order among the first
\* n items, it returns with the subtree of idx in heap order, the first n
\* items a permutation of what they were, and every item outside the subtree
\* of idx where it was.
C34_HeapifyDownRestores ==
  [][LET idx == last'.val[1]
         n == last'.val[2]
         class == heap._canBeParentFn
     IN /\ last'.op = "heapifyDown"
        /\ idx < n
        /\ subtreeOrdered(heap._items, class, 2 * idx + 1, n)
        /\ subtreeOrdered(heap._items, class, 2 * idx + 2, n)
        => /\ last'.ret = "void"
           /\ subtreeOrdered(heap'._items, class, idx, n)
           /\ \A item \in ItemSet :
                occurrences(heap'._items, n, item)
                  = occurrences(heap._items, n, item)
           /\ \A i \in 0..(Len(heap._items) - 1) :
                ~inSubtree(i, idx) => heap'._items[i + 1] = heap._items[i + 1]
    ]_vars


\* ---- C35 ------------------------------------------------------------------
\* The first _size entries of _heap are in heap order by the priorities the
\* queue holds now.
pqHeapOrdered(q) ==
  \A idx \in 1..(q._size - 1) :
    _canBeParent(q, (idx - 1) \div 2, idx) = Normal(TRUE)

\* C35: after every operation on an indexed priority queue, _idxs[i] is -1 for
\* each label i that is not in the queue, and for each label i that is in the
\* queue 0 <= _idxs[i] < size() and _heap[_idxs[i]] = i; the first size()
\* entries of _heap are pairwise distinct and in heap order by the current
\* priorities.
C35_IndexesAndHeapOrder ==
  pq # null
    => /\ \A i \in Labels :
            IF i \notin inQueue THEN _getIndex(pq, i) = -1
            ELSE /\ 0 <= _getIndex(pq, i)
                 /\ _getIndex(pq, i) < pq._size
                 /\ heapAt(pq, _getIndex(pq, i)) = Integer(i)
       /\ pq._size <= Len(pq._heap)
       /\ \A idx1 \in 1..pq._size, idx2 \in 1..pq._size :
            idx1 # idx2 => pq._heap[idx1] # pq._heap[idx2]
       /\ pqHeapOrdered(pq)


\* ---- C36 ------------------------------------------------------------------
\* C36: every add and every remove call on a heap reached by add and remove
\* calls returns or throws: the loop of heapifyUp and the loop of heapifyDown
\* are left after finitely many iterations.
C36_CallsTerminate == (frame # null) ~> (frame = null)

\* A remove call inside heapifyDown's loop after at least one exchange: idx
\* has moved to index 2 or beyond, the loop condition childIdx < n still holds
\* and the item now at idx is not the one remove returns.
C36_Witness ==
  /\ frame # null /\ frame.call = "Heap.remove"
  /\ frame.idx >= 2 /\ frame.childIdx < frame.n
  /\ heap._items[frame.idx + 1] # frame.item


\* ---- C37 ------------------------------------------------------------------
\* A map tree and a set tree have the same shape, the same colors and, node
\* by node, the map's key equal to the set's value.
RECURSIVE sameTree(_, _)
sameTree(mapRoot, setRoot) ==
  IF mapRoot = null \/ setRoot = null THEN mapRoot = setRoot
  ELSE /\ compareFn(mapRoot.key, setRoot.value) = 0
       /\ mapRoot.color = setRoot.color
       /\ sameTree(mapRoot.left, setRoot.left)
       /\ sameTree(mapRoot.right, setRoot.right)

\* What min(), max(), floor(key) and ceiling(key) of the map and of the set
\* return: the key or value found, or the error thrown.
found(root, node, field) ==
  IF root = null \/ node = null THEN Call("query", "NoSuchElementError")
  ELSE Returns("query", node[field])

mapQueries(key) ==
  <<has(_root, key),
    found(_root, IF _root = null THEN null ELSE min(_root), "key"),
    found(_root, IF _root = null THEN null ELSE max(_root), "key"),
    found(_root, floor(_root, key), "key"),
    found(_root, ceiling(_root, key), "key")>>

setQueries(value) ==
  <<SortedSet_has(twin._root, value),
    found(twin._root, IF twin._root = null THEN null ELSE min(twin._root),
          "value"),
    found(twin._root, IF twin._root = null THEN null ELSE max(twin._root),
          "value"),
    found(twin._root, SortedSet_floor(twin._root, value), "value"),
    found(twin._root, SortedSet_ceiling(twin._root, value), "value")>>

\* C37: a SortedMap and a SortedSet given the same sequence of set(k, v) /
\* add(k), delete(k), deleteMin, deleteMax and clear calls have, after every
\* step, trees of the same shape, node colors and keys, calls that ended the
\* same way, and the same results of has, min, max, floor and ceiling; floor
\* and ceiling of a key that is present return that key in both.
C37_SetAndMapAgree ==
  twin # null
    => /\ sameTree(_root, twin._root)
       /\ twin.ret = last.ret
       /\ \A key \in 0..(MaxKey + 1) :
            /\ mapQueries(key) = setQueries(key)
            /\ has(_root, key)
                 => /\ mapQueries(key)[4] = Returns("query", key)
                    /\ mapQueries(key)[5] = Returns("query", key)
                    /\ setQueries(key)[4] = Returns("query", key)
                    /\ setQueries(key)[5] = Returns("query", key)

\* Both trees hold two keys, one of them in a red node, and the last call on
\* both was a delete of a key that was present.
C37_Witness ==
  /\ twin # null /\ twin._root # null
  /\ last = Call("delete", "true") /\ twin.ret = "true"
  /\ countNodes(_root) = 2 /\ hasRedNode(twin._root)


\* ---- C38 ------------------------------------------------------------------
\* Two trees have the same shape and, node by node, the same key, value and
\* color.
RECURSIVE sameState(_, _)
sameState(a, b) ==
  IF a = null \/ b = null \/ a = AssertionError \/ b = AssertionError
    THEN a = b
  ELSE /\ a.key = b.key /\ a.value = b.value /\ a.color = b.color
       /\ sameState(a.left, b.left)
       /\ sameState(a.right, b.right)

\* The _root that delete(key) leaves for a key that root holds, or the
\* AssertionError it throws.
afterDelete(root, key) ==
  LET r == remove(redden(root), key)
  IN IF r = AssertionError THEN AssertionError ELSE blacken(r)

\* C38: on a non-empty map, deleteMin() leaves the keys, values, tree shape
\* and colors that delete(min()) would leave, and deleteMax() those that
\* delete(max()) would leave.
C38_DeleteExtremeIsDelete ==
  [][/\ last'.op = "deleteMin" /\ _root # null
          => sameState(IF last'.ret = "AssertionError" THEN AssertionError
                       ELSE _root',
                       afterDelete(_root, min(_root).key))
     /\ last'.op = "deleteMax" /\ _root # null
          => sameState(IF last'.ret = "AssertionError" THEN AssertionError
                       ELSE _root',
                       afterDelete(_root, max(_root).key))]_vars

\* deleteMin() has just returned on a map that held four keys.
C38_Witness ==
  last = Call("deleteMin", "void") /\ countNodes(_root) = 3

====
